---- MODULE Spec2Model ----
(***************************************************************************)
(* A model of the shrubbery server's session and presence plane:           *)
(*   - the Authorizer (server/src/state/authorizer.rs),                    *)
(*   - the DocManager and its doc_worker tasks (server/src/doc_manager.rs),*)
(*   - the per-connection State machine (server/src/proto/                 *)
(*     socket_processor.rs).                                               *)
(*                                                                         *)
(* Nine specifications are given.  Spec is the server: sessions read       *)
(* frames from their sockets and drive the Authorizer, the DocManager and  *)
(* the workers, while the clock stands still, so that of each worker's     *)
(* ticks only the first, due when the worker starts, is served.  SpecFair  *)
(* is Spec with every registered worker scheduled fairly, SpecOpen is      *)
(* Spec with the open calls of the sessions and the open arm of the        *)
(* workers scheduled fairly.  SpecAuthz drives the Authorizer's three      *)
(* public methods directly, as a caller holding a clone of it may, and     *)
(* lets the clock advance.  SpecPresence starts with two sessions          *)
(* subscribed to one document, twenty seconds after the worker started,    *)
(* and follows their presence updates, the worker's fan-out and its        *)
(* ticker while the clock advances by ticker periods.  SpecCodec takes a   *)
(* Frame through serde_json: to_string and back through from_str.          *)
(* SpecCarrier looks at one connection below the session: the messages or  *)
(* bytes a peer sends, what the carrier (the Adapter of the HTTP           *)
(* multiplexer, or FramedConnection over WebSocket or raw TCP) makes of    *)
(* them, and what the task reading the socket gets.  SpecAccept is         *)
(* SpecCarrier with no wake-up granted to a task the carrier has parked.   *)
(* SpecServed starts with two authenticated sessions, one of them on a     *)
(* minted token, and lets that token expire or be revoked while both go    *)
(* on sending frames.                                                      *)
(*                                                                         *)
(* Time is counted in whole seconds.  Tokens are natural numbers: the      *)
(* root token is RootToken and the k-th call of random_alphanum yields     *)
(* token k, i.e. the random source is taken never to repeat itself.        *)
(* The frame id counters (i32) and the handle id counter (u32) are plain   *)
(* integers: no run within the bounds comes near their limits.  Clients    *)
(* number their frames -1, -2, ... as frame.rs asks of them.               *)
(***************************************************************************)
EXTENDS Integers, Sequences, FiniteSets, TLC

(* ------------------------------ bounds -------------------------------- *)
\* the clock stops at MaxTime seconds
MaxTime == 1
\* at most MaxApiMint tokens are minted through direct calls of mint_token
MaxApiMint == 2
\* the connections deliver at most MaxFrames inbound frames in total
MaxFrames == 4
\* in SpecPresence the connections deliver at most MaxUpdates further frames
MaxUpdates == 2
\* in SpecPresence the clock stops at MaxClock seconds
MaxClock == 30

Sessions == {"s1", "s2"}
Docs == {"d1", "d2"}
\* the users direct calls of the Authorizer name
Users == {"root", "alice", "bob"}
\* the users inbound frames name
FrameUsers == {"root", "alice"}
\* the lifetimes, in seconds, direct calls of mint_token use
Lifetimes == {0, 1}
\* the lifetimes, in seconds, MintToken frames ask for
FrameLifetimes == {1}
\* the info values (Option<serde_json::Value>) direct calls of mint_token use
Infos == {<< >>, << "i" >>}
\* the info values MintToken frames carry
FrameInfos == {<< "i" >>}
\* the tokens direct calls of authenticate are given
ApiTokens == 0..MaxApiMint

(* ----------------------------- options -------------------------------- *)
None == << >>
Some(x) == << x >>
Range(f) == {f[i] : i \in DOMAIN f}
Restrict(f, S) == [x \in S |-> f[x]]

VARIABLES
    now,        \* Instant::now(), in seconds
    inner,      \* Authorizer: Inner {root_token, by_token, by_user}
    rng,        \* number of tokens random_alphanum has produced
    minted,     \* history: token -> the user of the entry it was minted with
    revoked,    \* history: tokens whose user was revoked after they were minted
    sess,       \* the State of each connection
    opens,      \* DocManager.opens: DocId -> Sender<OpenRequest> (a worker index)
    workers,    \* the doc_worker tasks spawned so far, in spawn order
    wire,       \* history: per connection, how many frames the server has
                \* written and the last of them
    issued,     \* history: per worker, the client ids of the handles it built
    actor,      \* history: the last direct call on the Authorizer
    quota,      \* the number of inbound frames the clients may still send
    socket,     \* the carrier of one connection, seen from below the session
    codec       \* a Frame on its way through serde_json and back

vars == << now, inner, rng, minted, revoked, sess, opens, workers, wire,
           issued, actor, quota, socket, codec >>

(* ---------------------------- Authorizer ------------------------------ *)
RootToken == 0

\* The lifetime of the synthetic root entry.  The source adds 100 years
\* (3153600000 s), which is beyond the 32-bit integers of the model checker;
\* the model keeps a lifetime that is likewise far beyond any clock value.
RootLifetime == 2000000000

Entry(user, expiry, info) == [user |-> user, expiry |-> expiry, info |-> info]

AuthorizerNew(root_token) ==
    [root_token |-> root_token, by_token |-> << >>, by_user |-> << >>]

\* random_alphanum: the next token of the random source
random_alphanum(n) == n + 1

mint_token(in, entry, token) ==
    [in EXCEPT
       !.by_token = (token :> entry) @@ @,
       !.by_user  = IF entry.user \in DOMAIN @
                    THEN [@ EXCEPT ![entry.user] = Append(@, token)]
                    ELSE (entry.user :> << token >>) @@ @]

authenticate_NoRootBranch(in, token, t) ==
    IF token \notin DOMAIN in.by_token THEN None
    ELSE IF in.by_token[token].expiry < t THEN None
    ELSE Some(in.by_token[token])

authenticate(in, token, t) ==
    IF in.root_token = token
    THEN Some(Entry("root", t + RootLifetime, None))
    ELSE IF token \notin DOMAIN in.by_token THEN None
    ELSE IF in.by_token[token].expiry < t THEN None
    ELSE Some(in.by_token[token])

revoke_tokens_for_user_KeepTokens(in, user) ==
    IF user = "root" THEN in
    ELSE IF user \notin DOMAIN in.by_user THEN in
    ELSE [in EXCEPT !.by_user = Restrict(@, DOMAIN @ \ {user})]

revoke_tokens_for_user(in, user) ==
    IF user = "root" THEN in
    ELSE IF user \notin DOMAIN in.by_user THEN in
    ELSE [in EXCEPT
            !.by_user  = Restrict(@, DOMAIN @ \ {user}),
            !.by_token = Restrict(@, DOMAIN @ \ Range(in.by_user[user]))]

\* history kept beside the Authorizer by every caller of mint / revoke
MintedAfter(token, user) == (token :> user) @@ minted
RevokedAfter(user) ==
    IF user = "root" THEN revoked
    ELSE revoked \cup {t \in DOMAIN minted : minted[t] = user}

(* ------------------------------ frames -------------------------------- *)
\* The tokens inbound Authenticate frames carry: the root token, the tokens
\* minted so far and one token that has not been minted.
Tokens == 0..(rng + 1)

Presences == {"p"}

\* Frame::new and Frame::new_reply; a frame's payload fields are error, token
\* and updates, left empty where the FrameType has none
FrameNew(id, kind, updates) ==
    [id |-> id, reply_to |-> None, kind |-> kind, error |-> "", token |-> None,
     updates |-> updates]
FrameNewReply_IdAsReplyTo(id, reply_to, kind, error, token) ==
    [id |-> id, reply_to |-> Some(id), kind |-> kind, error |-> error,
     token |-> token, updates |-> << >>]

FrameNewReply(id, reply_to, kind, error, token) ==
    [id |-> id, reply_to |-> Some(reply_to), kind |-> kind, error |-> error,
     token |-> token, updates |-> << >>]

\* The frames a client can put on a connection.  UnknownFrame stands for
\* every FrameType that process_frame's catch-all arm receives besides
\* Authenticate (Ok, MintTokenResponse, Presence, UnknownFrame).
InboundFrames ==
    [kind : {"Authenticate"}, token : Tokens]
    \cup [kind : {"MintToken"}, user : FrameUsers, info : FrameInfos,
             lifetime_seconds : FrameLifetimes]
    \cup [kind : {"RevokeTokensForUser"}, user : FrameUsers]
    \cup [kind : {"Open"}, doc : Docs]
    \cup [kind : {"UpdatePresence"}, doc : Docs, presence : Presences]
    \cup [kind : {"Error"}]
    \cup [kind : {"UnknownFrame"}]

OfKind(k) == {f \in InboundFrames : f.kind = k}

\* the id of the next frame the client of s sends: -1, -2, ...
InboundId(s) == -(sess[s].nrecv + 1)

RECURSIVE Sum(_, _)
Sum(f, S) == IF S = {} THEN 0
             ELSE LET x == CHOOSE y \in S : TRUE IN f[x] + Sum(f, S \ {x})

\* the number of inbound frames read so far, over all connections
TotalRecv == Sum([s \in Sessions |-> sess[s].nrecv], Sessions)

(* ------------------------------- Init --------------------------------- *)
NoFrame == [kind |-> "none"]
NoActor == [kind |-> "none"]

\* A connection before State::accept has read its first frame.  The State
\* struct is built on entering Active; before that its fields hold the
\* values accept works with (the literal frame id 1, nothing open).
SessionInit ==
    [state |-> "PreAuth", pc |-> "select", auth |-> None, first |-> NoFrame,
     next_frame_id |-> 1, open |-> << >>, presence_rx |-> << >>,
     nrecv |-> 0, cur |-> NoFrame, cur_id |-> 0, tx |-> None, reply |-> None,
     pending |-> None, wr_ok |-> TRUE]

\* no connection is looked at from below the session, no frame is in serde
NoSocket == [carrier |-> "none"]
NoCodec == [stage |-> "none"]

ServerInit ==
    /\ now = 0
    /\ inner = AuthorizerNew(RootToken)
    /\ rng = 0
    /\ minted = << >>
    /\ revoked = {}
    /\ sess = [s \in Sessions |-> SessionInit]
    /\ opens = << >>
    /\ workers = << >>
    /\ wire = [s \in Sessions |-> [n |-> 0, last |-> NoFrame]]
    /\ issued = << >>
    /\ actor = NoActor
    /\ quota = MaxFrames

Init ==
    /\ ServerInit
    /\ socket = NoSocket
    /\ codec = NoCodec

(* ------------------------------ clock --------------------------------- *)
Tick ==
    /\ now < MaxTime
    /\ now' = now + 1
    /\ actor' = NoActor
    /\ UNCHANGED << inner, rng, minted, revoked, sess, opens, workers, wire,
                    issued, quota, socket, codec >>

(* --------------------- State: writing to the socket ------------------- *)
\* the capacity of a session's presence channel (mpsc::channel(12))
PresenceChanCap == 12
\* the capacity of a worker's open-request channel (mpsc::channel(1))
OpenChanCap == 1
\* the capacity of a worker's presence ingress channel (mpsc::channel(1))
PresenceIngressCap == 1

\* the message of the io::Error a failed socket write or channel send yields
IoError == "io error"

\* A socket write succeeds or fails.  The first write that fails marks the
\* transport broken (wr_ok = FALSE), and a broken transport stays broken:
\* every later write on it fails.  In the operators below, up says whether
\* the transport still stands at the handler's first write.
\* Each send returns the State after the call, the frames put on the wire and
\* whether the write succeeded.
Broken(st) == [st EXCEPT !.wr_ok = FALSE]
Up(st, up) == st.wr_ok /\ up

send_ok_NoIncrement(st, reply_to, up) ==
    IF Up(st, up)
    THEN [st  |-> st,
          out |-> << FrameNewReply(st.next_frame_id, reply_to, "Ok", "", None) >>,
          ok  |-> TRUE]
    ELSE [st |-> Broken(st), out |-> << >>, ok |-> FALSE]

send_ok(st, reply_to, up) ==
    IF Up(st, up)
    THEN [st  |-> [st EXCEPT !.next_frame_id = @ + 1],
          out |-> << FrameNewReply(st.next_frame_id, reply_to, "Ok", "", None) >>,
          ok  |-> TRUE]
    ELSE [st |-> Broken(st), out |-> << >>, ok |-> FALSE]

send_error(st, reply_to, message, up) ==
    IF Up(st, up)
    THEN [st  |-> [st EXCEPT !.next_frame_id = @ + 1],
          out |-> << FrameNewReply(st.next_frame_id, reply_to, "Error", message,
                                   None) >>,
          ok  |-> TRUE]
    ELSE [st |-> Broken(st), out |-> << >>, ok |-> FALSE]

\* State::run, lines 152-157: process_frame returned Err(message)
run_err(st, frame_id, message, up) ==
    LET r == send_error(st, frame_id, message, up)
    IN  [st |-> [r.st EXCEPT !.next_frame_id = @ + 1], out |-> r.out]

\* the State is dropped: its DocHandles and its presence receiver go with it
Dropped(st) ==
    [st EXCEPT !.state = "Closed", !.pc = "select", !.auth = None,
               !.next_frame_id = 0, !.open = << >>, !.presence_rx = << >>,
               !.cur = NoFrame, !.tx = None, !.reply = None, !.pending = None]

\* socket.next() has yielded frame f on connection s
Read(st, s, f) ==
    [st EXCEPT !.nrecv = @ + 1, !.cur_id = InboundId(s),
               !.first = IF st.nrecv = 0 THEN f ELSE @]

\* Connections are named in the order in which their first frames arrive:
\* s2 delivers no frame before s1 has delivered one.
InOrder(s) == s = "s2" => sess["s1"].nrecv > 0

CanRead(s) ==
    /\ sess[s].pc = "select"
    /\ quota > 0
    /\ InOrder(s)

Wrote(w, out) ==
    IF out = << >> THEN w ELSE [n |-> w.n + Len(out), last |-> out[Len(out)]]

Commit(s, r) ==
    /\ sess' = [sess EXCEPT ![s] = r.st]
    /\ wire' = [wire EXCEPT ![s] = Wrote(@, r.out)]

\* a handler step that writes nothing
Quiet(st) == [st |-> st, out |-> << >>]

(* --------------------------- State::accept ---------------------------- *)
accept_SilentReject(st, s, f, up) ==
    LET id  == InboundId(s)
        st1 == Read(st, s, f)
        res == authenticate(inner, f.token, now)
    IN  IF f.kind # "Authenticate"
        THEN Quiet(Dropped(st1))
        ELSE IF res = None
        THEN Quiet(Dropped(st1))
        ELSE IF ~Up(st, up)
        THEN Quiet(Dropped(Broken(st1)))
        ELSE [st  |-> [st1 EXCEPT !.state = "Active", !.auth = res,
                                  !.next_frame_id = 2],
              out |-> << FrameNewReply(1, id, "Ok", "", None) >>]

accept_NoTokenCheck(st, s, f, up) ==
    LET id  == InboundId(s)
        st1 == Read(st, s, f)
    IN  IF f.kind # "Authenticate"
        THEN Quiet(Dropped(st1))
        ELSE IF ~Up(st, up)
        THEN Quiet(Dropped(Broken(st1)))
        ELSE [st  |-> [st1 EXCEPT !.state = "Active",
                                  !.auth = Some(Entry("guest", now, None)),
                                  !.next_frame_id = 2],
              out |-> << FrameNewReply(1, id, "Ok", "", None) >>]

\* State::accept on the first frame f of connection s
accept(st, s, f, up) ==
    LET id  == InboundId(s)
        st1 == Read(st, s, f)
        res == authenticate(inner, f.token, now)
    IN  IF f.kind # "Authenticate"
        THEN Quiet(Dropped(st1))
        ELSE IF res = None
        THEN IF Up(st, up)
             THEN [st  |-> Dropped(st1),
                   out |-> << FrameNewReply(1, id, "Error", "invalid token", None) >>]
             ELSE Quiet(Dropped(Broken(st1)))
        ELSE IF ~Up(st, up)
        THEN Quiet(Dropped(Broken(st1)))
        ELSE [st  |-> [st1 EXCEPT !.state = "Active", !.auth = res,
                                  !.next_frame_id = 2],
              out |-> << FrameNewReply(1, id, "Ok", "", None) >>]

AcceptFrame(s, f, up) ==
    /\ sess[s].state = "PreAuth"
    /\ CanRead(s)
    /\ quota' = quota - 1
    /\ Commit(s, accept(sess[s], s, f, up))
    /\ UNCHANGED << now, inner, rng, minted, revoked, opens, workers, issued,
                    actor, socket, codec >>

\* socket.next() yields None or Some(Err(_)): accept and run both return
ReadEnd(s) ==
    /\ sess[s].state \in {"PreAuth", "Active"}
    /\ sess[s].pc = "select"
    /\ InOrder(s)
    /\ Commit(s, Quiet(Dropped(sess[s])))
    /\ UNCHANGED << now, inner, rng, minted, revoked, opens, workers, issued,
                    actor, quota, socket, codec >>

(* ------------- State::process_frame: administrative frames ------------ *)
IsRoot_AnyUser(st) == st.auth # None

IsRoot(st) == st.auth # None /\ st.auth[1].user = "root"

RecvError(s, f, up) ==
    /\ sess[s].state = "Active"
    /\ CanRead(s)
    /\ quota' = quota - 1
    /\ f.kind = "Error"
    /\ Commit(s, run_err(Read(sess[s], s, f), InboundId(s),
                          "unexpected error frame", up))
    /\ UNCHANGED << now, inner, rng, minted, revoked, opens, workers, issued,
                    actor, socket, codec >>

RecvUnknown_SwitchUser(s, f) ==
    /\ sess[s].state = "Active"
    /\ CanRead(s)
    /\ quota' = quota - 1
    /\ f.kind \in {"UnknownFrame", "Authenticate"}
    /\ LET st1 == Read(sess[s], s, f)
           res == IF f.kind = "Authenticate"
                  THEN authenticate(inner, f.token, now) ELSE None
       IN Commit(s, Quiet(IF res = None THEN st1 ELSE [st1 EXCEPT !.auth = res]))
    /\ UNCHANGED << now, inner, rng, minted, revoked, opens, workers, issued,
                    actor, socket, codec >>

RecvUnknown_ErrorReply(s, f) ==
    /\ sess[s].state = "Active"
    /\ CanRead(s)
    /\ quota' = quota - 1
    /\ f.kind \in {"UnknownFrame", "Authenticate"}
    /\ Commit(s, run_err(Read(sess[s], s, f), InboundId(s),
                          "unexpected frame", TRUE))
    /\ UNCHANGED << now, inner, rng, minted, revoked, opens, workers, issued,
                    actor, socket, codec >>

\* process_frame's catch-all arm, lines 239-242: the frame is logged
RecvUnknown(s, f) ==
    /\ sess[s].state = "Active"
    /\ CanRead(s)
    /\ quota' = quota - 1
    /\ f.kind \in {"UnknownFrame", "Authenticate"}
    /\ Commit(s, Quiet(Read(sess[s], s, f)))
    /\ UNCHANGED << now, inner, rng, minted, revoked, opens, workers, issued,
                    actor, socket, codec >>

RecvMintToken(s, f, up) ==
    /\ sess[s].state = "Active"
    /\ CanRead(s)
    /\ quota' = quota - 1
    /\ f.kind = "MintToken"
    /\ LET id  == InboundId(s)
           st1 == Read(sess[s], s, f)
       IN IF ~IsRoot(st1)
          THEN /\ Commit(s, run_err(st1, id, "forbidden", up))
               /\ UNCHANGED << inner, rng, minted >>
          ELSE /\ LET token == random_alphanum(rng)
                      entry == Entry(f.user, now + f.lifetime_seconds, f.info)
                      sent  == [st  |-> [st1 EXCEPT !.next_frame_id = @ + 1],
                                out |-> << FrameNewReply(st1.next_frame_id, id,
                                             "MintTokenResponse", "", Some(token)) >>]
                  IN /\ inner' = mint_token(inner, entry, token)
                     /\ rng' = rng + 1
                     /\ minted' = MintedAfter(token, f.user)
                     /\ Commit(s, IF Up(st1, up) THEN sent
                                   ELSE run_err(Broken(st1), id, IoError, FALSE))
    /\ UNCHANGED << now, revoked, opens, workers, issued, actor, socket, codec >>

RecvRevoke_NoRootGuard(s, f, up) ==
    /\ sess[s].state = "Active"
    /\ CanRead(s)
    /\ quota' = quota - 1
    /\ f.kind = "RevokeTokensForUser"
    /\ LET id  == InboundId(s)
           st1 == Read(sess[s], s, f)
       IN IF ~IsRoot(st1)
          THEN /\ Commit(s, run_err(st1, id, "forbidden", up))
               /\ UNCHANGED << inner, revoked >>
          ELSE /\ LET a == send_ok(st1, id, up)
                  IN Commit(s, IF a.ok THEN [st |-> a.st, out |-> a.out]
                               ELSE run_err(a.st, id, IoError, FALSE))
               /\ inner' = revoke_tokens_for_user(inner, f.user)
               /\ revoked' = RevokedAfter(f.user)
    /\ UNCHANGED << now, rng, minted, opens, workers, issued, actor, socket, codec >>

RecvRevoke(s, f, up) ==
    /\ sess[s].state = "Active"
    /\ CanRead(s)
    /\ quota' = quota - 1
    /\ f.kind = "RevokeTokensForUser"
    /\ LET id  == InboundId(s)
           st1 == Read(sess[s], s, f)
       IN IF ~IsRoot(st1)
          THEN /\ Commit(s, run_err(st1, id, "forbidden", up))
               /\ UNCHANGED << inner, revoked >>
          ELSE IF f.user = "root"
          THEN /\ Commit(s, run_err(st1, id,
                                    "cannot use RevokeTokensForUser on root", up))
               /\ UNCHANGED << inner, revoked >>
          ELSE /\ LET a == send_ok(st1, id, up)
                  IN Commit(s, IF a.ok THEN [st |-> a.st, out |-> a.out]
                               ELSE run_err(a.st, id, IoError, FALSE))
               /\ inner' = revoke_tokens_for_user(inner, f.user)
               /\ revoked' = RevokedAfter(f.user)
    /\ UNCHANGED << now, rng, minted, opens, workers, issued, actor, socket, codec >>

(* ----------------------------- DocManager ---------------------------- *)
\* the period of a worker's ticker (interval(Duration::from_secs(10)))
TickerPeriod == 10
\* the age at which the ticker evicts a presence entry (from_secs(30))
PresenceTtl == 30

\* The state doc_worker starts with.  next_tick is the instant at which
\* presence_interval yields next: an interval's first tick is due at once.
\* heard is a history field: per client, the last update the worker took
\* from its ingress.
WorkerNew(doc) ==
    [doc |-> doc, alive |-> TRUE, next_handle_id |-> 1, client_map |-> << >>,
     presence_map |-> << >>, open_rx |-> << >>, presence_rx |-> << >>,
     next_tick |-> now, heard |-> << >>]

\* Sender::is_closed: the worker has returned and dropped its receivers
is_closed(ws, w) == ~ws[w].alive

\* the Senders of worker w's open-request channel that exist: the one in the
\* registry and the clones held by open calls in progress
Senders(w) ==
    Cardinality({d \in DOMAIN opens : opens[d] = w})
    + Cardinality({s \in Sessions : sess[s].tx = Some(w)})

open_lookup_AlwaysSpawn(op, ws, doc) ==
    [opens   |-> (doc :> Len(ws) + 1) @@ op,
     workers |-> Append(ws, WorkerNew(doc)),
     tx      |-> Len(ws) + 1]

\* DocManager::open, lines 51-72: what one pass through the locked block
\* makes of the registry and the set of workers, and the sender it yields
open_lookup(op, ws, doc) ==
    LET present == doc \in DOMAIN op /\ ~is_closed(ws, op[doc])
    IN  IF present
        THEN [opens |-> op, workers |-> ws, tx |-> op[doc]]
        ELSE [opens   |-> (doc :> Len(ws) + 1) @@ op,
              workers |-> Append(ws, WorkerNew(doc)),
              tx      |-> Len(ws) + 1]

IssuedAfter(ws) == IF Len(ws) > Len(workers) THEN Append(issued, << >>) ELSE issued

OpenRequest(s) ==
    [user |-> sess[s].auth[1].user, user_info |-> sess[s].auth[1].info,
     session |-> s]

RecvOpen_Reauthenticate(s, f) ==
    /\ sess[s].state = "Active"
    /\ CanRead(s)
    /\ quota' = quota - 1
    /\ f.kind = "Open"
    /\ IF authenticate(inner, sess[s].first.token, now) = None
       THEN /\ Commit(s, Quiet(Dropped(Read(sess[s], s, f))))
            /\ UNCHANGED << opens, workers, issued >>
       ELSE LET r == open_lookup(opens, workers, f.doc)
            IN /\ opens' = r.opens
               /\ workers' = r.workers
               /\ issued' = IssuedAfter(r.workers)
               /\ Commit(s, Quiet([Read(sess[s], s, f) EXCEPT
                                       !.pc = "open_send", !.cur = f, !.tx = Some(r.tx)]))
    /\ UNCHANGED << now, inner, rng, minted, revoked, actor, socket, codec >>

\* process_frame on Open{doc}, up to the first await of DocManager::open
RecvOpen(s, f) ==
    /\ sess[s].state = "Active"
    /\ CanRead(s)
    /\ quota' = quota - 1
    /\ f.kind = "Open"
    /\ LET r == open_lookup(opens, workers, f.doc)
       IN /\ opens' = r.opens
          /\ workers' = r.workers
          /\ issued' = IssuedAfter(r.workers)
          /\ Commit(s, Quiet([Read(sess[s], s, f) EXCEPT
                                  !.pc = "open_send", !.cur = f, !.tx = Some(r.tx)]))
    /\ UNCHANGED << now, inner, rng, minted, revoked, actor, socket, codec >>

\* DocManager::open, lines 74-84: tx.send(req).await, and on a closed
\* channel the next pass through the locked block
OpenSend(s) ==
    /\ sess[s].pc = "open_send"
    /\ LET w == sess[s].tx[1]
       IN IF is_closed(workers, w)
          THEN LET r == open_lookup(opens, workers, sess[s].cur.doc)
               IN /\ opens' = r.opens
                  /\ workers' = r.workers
                  /\ issued' = IssuedAfter(r.workers)
                  /\ sess' = [sess EXCEPT ![s].tx = Some(r.tx)]
          ELSE /\ Len(workers[w].open_rx) < OpenChanCap
               /\ workers' = [workers EXCEPT
                                ![w].open_rx = Append(@, OpenRequest(s))]
               /\ sess' = [sess EXCEPT ![s].pc = "open_wait"]
               /\ UNCHANGED << opens, issued >>
    /\ UNCHANGED << now, inner, rng, minted, revoked, wire, actor, quota, socket, codec >>

doc_worker_open_SameId(wk, w, req) ==
    [wk EXCEPT !.client_map = (wk.next_handle_id :> req.session) @@ @,
               !.open_rx = Tail(@)]

\* doc_worker, lines 128-148: the worker after it has served request req
doc_worker_open(wk, w, req) ==
    [wk EXCEPT !.next_handle_id = @ + 1,
               !.client_map = (wk.next_handle_id :> req.session) @@ @,
               !.open_rx = Tail(@)]

\* the DocHandle built for request req
DocHandle(wk, w, req) ==
    [doc |-> wk.doc, id |-> wk.next_handle_id, user |-> req.user,
     user_info |-> req.user_info, worker |-> w]

WorkerOpen_NoReply(w) ==
    /\ workers[w].alive
    /\ workers[w].open_rx # << >>
    /\ workers' = [workers EXCEPT
                     ![w] = doc_worker_open(workers[w], w, Head(workers[w].open_rx))]
    /\ UNCHANGED << issued, sess >>
    /\ UNCHANGED << now, inner, rng, minted, revoked, opens, wire, actor, quota, socket, codec >>

\* doc_worker's open_rx.recv() arm: a request is served, or the channel has
\* no sender left and the worker returns
WorkerOpen(w) ==
    /\ workers[w].alive
    /\ IF workers[w].open_rx # << >>
       THEN LET req == Head(workers[w].open_rx)
                h   == DocHandle(workers[w], w, req)
            IN /\ workers' = [workers EXCEPT
                                ![w] = doc_worker_open(workers[w], w, req)]
               /\ issued' = [issued EXCEPT ![w] = Append(@, h.id)]
               /\ sess' = [sess EXCEPT ![req.session].reply = Some(h)]
       ELSE /\ Senders(w) = 0
            /\ workers' = [workers EXCEPT ![w].alive = FALSE]
            /\ UNCHANGED << issued, sess >>
    /\ UNCHANGED << now, inner, rng, minted, revoked, opens, wire, actor, quota, socket, codec >>

OpenReturn_KeepFirst(s, up) ==
    /\ sess[s].pc = "open_wait"
    /\ sess[s].reply # None
    /\ LET h   == sess[s].reply[1]
           st1 == [sess[s] EXCEPT !.pc = "select", !.tx = None, !.reply = None,
                                  !.cur = NoFrame, !.open = @ @@ (h.doc :> h)]
           a   == send_ok(st1, st1.cur_id, up)
       IN Commit(s, IF a.ok THEN [st |-> a.st, out |-> a.out]
                    ELSE run_err(a.st, st1.cur_id, IoError, FALSE))
    /\ UNCHANGED << now, inner, rng, minted, revoked, opens, workers, issued,
                    actor, quota, socket, codec >>

\* DocManager::open returns the handle; process_frame stores it and replies
OpenReturn(s, up) ==
    /\ sess[s].pc = "open_wait"
    /\ sess[s].reply # None
    /\ LET h   == sess[s].reply[1]
           st1 == [sess[s] EXCEPT !.pc = "select", !.tx = None, !.reply = None,
                                  !.cur = NoFrame, !.open = (h.doc :> h) @@ @]
           a   == send_ok(st1, st1.cur_id, up)
       IN Commit(s, IF a.ok THEN [st |-> a.st, out |-> a.out]
                    ELSE run_err(a.st, st1.cur_id, IoError, FALSE))
    /\ UNCHANGED << now, inner, rng, minted, revoked, opens, workers, issued,
                    actor, quota, socket, codec >>

(* ------------------------------ presence ------------------------------ *)
PresenceFrame_NoInfo(h, presence) ==
    [client |-> h.id, doc |-> h.doc, user |-> h.user, info |-> None,
     presence |-> Some(presence)]

\* DocHandle::update_presence, lines 97-103
PresenceFrame(h, presence) ==
    [client |-> h.id, doc |-> h.doc, user |-> h.user, info |-> h.user_info,
     presence |-> Some(presence)]

RecvUpdatePresence_SilentDrop(s, f, up) ==
    /\ sess[s].state = "Active"
    /\ CanRead(s)
    /\ quota' = quota - 1
    /\ f.kind = "UpdatePresence"
    /\ LET st1 == Read(sess[s], s, f)
       IN IF f.doc \notin DOMAIN st1.open
          THEN Commit(s, Quiet(st1))
          ELSE LET h == st1.open[f.doc]
               IN Commit(s, Quiet([st1 EXCEPT
                      !.pc = "presence_send",
                      !.pending = Some([worker |-> h.worker, last_update |-> now,
                                        frame |-> PresenceFrame(h, f.presence)])]))
    /\ UNCHANGED << now, inner, rng, minted, revoked, opens, workers, issued,
                    actor, socket, codec >>

\* process_frame on UpdatePresence, up to the await in update_presence
RecvUpdatePresence(s, f, up) ==
    /\ sess[s].state = "Active"
    /\ CanRead(s)
    /\ quota' = quota - 1
    /\ f.kind = "UpdatePresence"
    /\ LET st1 == Read(sess[s], s, f)
       IN IF f.doc \notin DOMAIN st1.open
          THEN Commit(s, run_err(st1, InboundId(s), "doc not open", up))
          ELSE LET h == st1.open[f.doc]
               IN Commit(s, Quiet([st1 EXCEPT
                      !.pc = "presence_send",
                      !.pending = Some([worker |-> h.worker, last_update |-> now,
                                        frame |-> PresenceFrame(h, f.presence)])]))
    /\ UNCHANGED << now, inner, rng, minted, revoked, opens, workers, issued,
                    actor, socket, codec >>

\* presence_tx.send((Instant::now(), frame)).await of update_presence
PresenceSend(s, up) ==
    /\ sess[s].pc = "presence_send"
    /\ LET p   == sess[s].pending[1]
           st1 == [sess[s] EXCEPT !.pc = "select", !.pending = None]
       IN IF is_closed(workers, p.worker)
          THEN /\ Commit(s, run_err(st1, st1.cur_id, IoError, up))
               /\ UNCHANGED workers
          ELSE /\ Len(workers[p.worker].presence_rx) < PresenceIngressCap
               /\ workers' = [workers EXCEPT ![p.worker].presence_rx =
                                Append(@, [last_update |-> p.last_update,
                                           frame |-> p.frame])]
               /\ Commit(s, Quiet(st1))
    /\ UNCHANGED << now, inner, rng, minted, revoked, opens, issued, actor, quota, socket, codec >>

Min(a, b) == IF a < b THEN a ELSE b
Copies(n, x) == [i \in 1..n |-> x]

Delivered_WhenEmpty(t, peers, batch) ==
    IF sess[t].state # "Active" \/ sess[t].presence_rx # << >> THEN << >>
    ELSE Copies(Min(Cardinality(peers), 1), batch)

\* the batches try_send adds to session t's presence channel when the worker
\* offers batch once for each entry of client_map in peers
Delivered(t, peers, batch) ==
    IF sess[t].state # "Active" THEN << >>
    ELSE Copies(Min(Cardinality(peers),
                    PresenceChanCap - Len(sess[t].presence_rx)), batch)

\* doc_worker, lines 150-159: one presence update is recorded and fanned out
WorkerPresence_BlockingSend(w) ==
    /\ workers[w].alive
    /\ workers[w].presence_rx # << >>
    /\ LET u      == Head(workers[w].presence_rx)
           client == u.frame.client
           cm     == workers[w].client_map
           peers(t) == {c \in DOMAIN cm : c # client /\ cm[c] = t}
       IN /\ \A t \in Sessions :
                sess[t].state = "Active" =>
                   Len(sess[t].presence_rx) + Cardinality(peers(t)) <= PresenceChanCap
          /\ workers' = [workers EXCEPT
                           ![w].presence_map = (client :> u) @@ @,
                           ![w].heard = (client :> u) @@ @,
                           ![w].presence_rx = Tail(@)]
          /\ sess' = [t \in Sessions |->
                        [sess[t] EXCEPT !.presence_rx =
                           @ \o Delivered(t, peers(t), << u.frame >>)]]
    /\ UNCHANGED << now, inner, rng, minted, revoked, opens, wire, issued,
                    actor, quota, socket, codec >>

WorkerPresence_NewestFirst(w) ==
    /\ workers[w].alive
    /\ workers[w].presence_rx # << >>
    /\ LET u      == Head(workers[w].presence_rx)
           client == u.frame.client
           cm     == workers[w].client_map
           peers(t) == {c \in DOMAIN cm : c # client /\ cm[c] = t}
       IN /\ workers' = [workers EXCEPT
                           ![w].presence_map = (client :> u) @@ @,
                           ![w].heard = (client :> u) @@ @,
                           ![w].presence_rx = Tail(@)]
          /\ sess' = [t \in Sessions |->
                        [sess[t] EXCEPT !.presence_rx =
                           Delivered(t, peers(t), << u.frame >>) \o @]]
    /\ UNCHANGED << now, inner, rng, minted, revoked, opens, wire, issued,
                    actor, quota, socket, codec >>

WorkerPresence(w) ==
    /\ workers[w].alive
    /\ workers[w].presence_rx # << >>
    /\ LET u      == Head(workers[w].presence_rx)
           client == u.frame.client
           cm     == workers[w].client_map
           peers(t) == {c \in DOMAIN cm : c # client /\ cm[c] = t}
       IN /\ workers' = [workers EXCEPT
                           ![w].presence_map = (client :> u) @@ @,
                           ![w].heard = (client :> u) @@ @,
                           ![w].presence_rx = Tail(@)]
          /\ sess' = [t \in Sessions |->
                        [sess[t] EXCEPT !.presence_rx =
                           @ \o Delivered(t, peers(t), << u.frame >>)]]
    /\ UNCHANGED << now, inner, rng, minted, revoked, opens, wire, issued,
                    actor, quota, socket, codec >>

\* the orders in which iterating over a HashMap may yield the keys in S
Orders(S) ==
    {o \in [1..Cardinality(S) -> S] : \A x \in S : \E i \in DOMAIN o : o[i] = x}

\* presence_map.retain, lines 162-165
Retained(pm, t) == Restrict(pm, {c \in DOMAIN pm : t - pm[c].last_update < PresenceTtl})

WorkerTick_NoEvict(w) ==
    /\ workers[w].alive
    /\ now >= workers[w].next_tick
    /\ LET kept == workers[w].presence_map
           cm   == workers[w].client_map
           peers(t) == {c \in DOMAIN cm : cm[c] = t}
       IN /\ workers' = [workers EXCEPT ![w].next_tick = @ + TickerPeriod]
          /\ IF kept = << >>
             THEN UNCHANGED sess
             ELSE \E o \in Orders(DOMAIN kept) :
                     LET frames == [i \in DOMAIN o |-> kept[o[i]].frame]
                     IN sess' = [t \in Sessions |->
                                   [sess[t] EXCEPT !.presence_rx =
                                      @ \o Delivered(t, peers(t), frames)]]
    /\ UNCHANGED << now, inner, rng, minted, revoked, opens, wire, issued,
                    actor, quota, socket, codec >>

\* doc_worker, lines 161-176: the ticker fires; stale entries are evicted
\* and, if any entry is left, all of them are offered to every client
WorkerTick(w) ==
    /\ workers[w].alive
    /\ now >= workers[w].next_tick
    /\ LET kept == Retained(workers[w].presence_map, now)
           cm   == workers[w].client_map
           peers(t) == {c \in DOMAIN cm : cm[c] = t}
       IN /\ workers' = [workers EXCEPT
                           ![w].presence_map = kept,
                           ![w].next_tick = @ + TickerPeriod]
          /\ IF kept = << >>
             THEN UNCHANGED sess
             ELSE \E o \in Orders(DOMAIN kept) :
                     LET frames == [i \in DOMAIN o |-> kept[o[i]].frame]
                     IN sess' = [t \in Sessions |->
                                   [sess[t] EXCEPT !.presence_rx =
                                      @ \o Delivered(t, peers(t), frames)]]
    /\ UNCHANGED << now, inner, rng, minted, revoked, opens, wire, issued,
                    actor, quota, socket, codec >>

Concat_LastOnly(batches) ==
    IF batches = << >> THEN << >> ELSE batches[Len(batches)]

\* frame.extend(next_frame), lines 161-163, over the batches at hand
RECURSIVE Concat(_)
Concat(batches) ==
    IF batches = << >> THEN << >> ELSE Head(batches) \o Concat(Tail(batches))

\* State::run, lines 160-170: the batches at hand leave as one Presence frame
PresenceOut(s, up) ==
    /\ sess[s].state = "Active"
    /\ sess[s].pc = "select"
    /\ sess[s].presence_rx # << >>
    /\ LET st1 == [sess[s] EXCEPT !.presence_rx = << >>]
           fr  == FrameNew(st1.next_frame_id, "Presence", Concat(sess[s].presence_rx))
       IN IF Up(st1, up)
          THEN Commit(s, [st |-> [st1 EXCEPT !.next_frame_id = @ + 1],
                          out |-> << fr >>])
          ELSE Commit(s, Quiet(Dropped(st1)))
    /\ UNCHANGED << now, inner, rng, minted, revoked, opens, workers, issued,
                    actor, quota, socket, codec >>

(* -------------------------------- Spec -------------------------------- *)
\* reading the socket, and the frames handled without Authorizer or DocManager
ConnStep(s) ==
    \/ \E f \in InboundFrames, up \in BOOLEAN : AcceptFrame(s, f, up)
    \/ ReadEnd(s)
    \/ \E f \in OfKind("Error"), up \in BOOLEAN : RecvError(s, f, up)
    \/ \E f \in InboundFrames : RecvUnknown(s, f)

AdminStep(s) ==
    \/ \E f \in OfKind("MintToken"), up \in BOOLEAN : RecvMintToken(s, f, up)
    \/ \E f \in OfKind("RevokeTokensForUser"), up \in BOOLEAN :
          RecvRevoke(s, f, up)

DocStep(s) ==
    \/ \E f \in OfKind("Open") : RecvOpen(s, f)
    \/ OpenSend(s)
    \/ \E up \in BOOLEAN : OpenReturn(s, up)
    \/ \E f \in OfKind("UpdatePresence"), up \in BOOLEAN :
          RecvUpdatePresence(s, f, up)
    \/ \E up \in BOOLEAN : PresenceSend(s, up)
    \/ \E up \in BOOLEAN : PresenceOut(s, up)

WorkerStep(w) ==
    \/ WorkerOpen(w)
    \/ WorkerPresence(w)
    \/ WorkerTick(w)

\* The server over a stretch of time in which the clock does not advance.
Next ==
    \/ \E s \in Sessions : ConnStep(s) \/ AdminStep(s) \/ DocStep(s)
    \/ \E w \in 1..Len(workers) : WorkerStep(w)

Spec == Init /\ [][Next]_vars

\* A doc_worker is a task spawned on the runtime (doc_manager.rs, line 65):
\* whenever one of the arms of its select! stays ready, the task is polled
\* and takes it.
FairWorkers ==
    \A d \in Docs : WF_vars(d \in DOMAIN opens /\ WorkerStep(opens[d]))

SpecFair == Spec /\ FairWorkers

\* A session is a task of the runtime as well: in DocManager::open it is
\* woken when the open-request channel has room (tx.send, line 82) and when
\* the one-shot reply has arrived (reply_rx, line 86), and is then polled.
\* The worker's select! picks among its ready arms at random, so the open
\* arm is not passed over for ever while it stays ready.
FairOpens ==
    /\ \A s \in Sessions :
          /\ WF_vars(OpenSend(s))
          /\ WF_vars(\E up \in BOOLEAN : OpenReturn(s, up))
    /\ \A d \in Docs : WF_vars(d \in DOMAIN opens /\ WorkerOpen(opens[d]))

SpecOpen == Spec /\ FairOpens

(* --------------- direct calls on the Authorizer (SpecAuthz) ----------- *)
Call(op, user, token) == [kind |-> op, user |-> user, token |-> token]

AzMint(user, lifetime, info) ==
    /\ rng < MaxApiMint
    /\ LET token == random_alphanum(rng)
           entry == Entry(user, now + lifetime, info)
       IN /\ inner' = mint_token(inner, entry, token)
          /\ rng' = rng + 1
          /\ minted' = MintedAfter(token, user)
          /\ actor' = Call("mint_token", user, token)
    /\ UNCHANGED << now, revoked, sess, opens, workers, wire, issued, quota, socket, codec >>

AzRevoke(user) ==
    /\ inner' = revoke_tokens_for_user(inner, user)
    /\ revoked' = RevokedAfter(user)
    /\ actor' = Call("revoke_tokens_for_user", user, RootToken)
    /\ UNCHANGED << now, rng, minted, sess, opens, workers, wire, issued, quota, socket, codec >>

AzAuthenticate(token) ==
    /\ actor' = [kind |-> "authenticate", user |-> "", token |-> token,
                 result |-> authenticate(inner, token, now)]
    /\ UNCHANGED << now, inner, rng, minted, revoked, sess, opens, workers,
                    wire, issued, quota, socket, codec >>

NextAuthz ==
    \/ Tick
    \/ \E u \in Users, l \in Lifetimes, i \in Infos : AzMint(u, l, i)
    \/ \E u \in Users : AzRevoke(u)
    \/ \E t \in ApiTokens : AzAuthenticate(t)

SpecAuthz == Init /\ [][NextAuthz]_vars

(* ------------- the presence plane of one document (SpecPresence) ------ *)
\* SpecPresence starts where two sessions have subscribed to document "d1":
\*   s1 has authenticated with the root token (frame -1), minted a token for
\*      alice (-2) and opened d1, once or twice (-3, -4);
\*   s2 has authenticated with alice's token (-1), opened d1 (-2) and then,
\*      still at instant 0, sent `sent` UpdatePresence frames, which the
\*      worker has fanned out;
\*   the worker's ticker has fired when the worker started, before these
\*      updates, and at each full period up to the instant `age`; s2 has
\*      written each snapshot it got to its socket, while s1 has not drained
\*      its presence channel at all.
AliceToken == random_alphanum(0)
AliceEntry == Entry("alice", 1, << "i" >>)
RootEntry == authenticate(AuthorizerNew(RootToken), RootToken, 0)[1]

Subscribed(reopened, sent, age) ==
    LET h1  == IF reopened THEN 2 ELSE 1
        h2  == h1 + 1
        n1  == h1 + 2
        hd1 == [doc |-> "d1", id |-> h1, user |-> RootEntry.user,
                user_info |-> RootEntry.info, worker |-> 1]
        hd2 == [doc |-> "d1", id |-> h2, user |-> AliceEntry.user,
                user_info |-> AliceEntry.info, worker |-> 1]
        fr  == PresenceFrame(hd2, "p")
        snapshots == IF sent = 0 THEN 0 ELSE age \div TickerPeriod
        got == Min(PresenceChanCap, (sent + snapshots) * h1)
        n2  == 2 + snapshots
        upd == IF sent = 0 THEN << >>
               ELSE h2 :> [last_update |-> 0, frame |-> fr]
    IN  /\ now = age
        /\ inner = mint_token(AuthorizerNew(RootToken), AliceEntry, AliceToken)
        /\ rng = 1
        /\ minted = (AliceToken :> "alice")
        /\ revoked = {}
        /\ actor = NoActor
        /\ quota = MaxUpdates
        /\ socket = NoSocket
        /\ codec = NoCodec
        /\ opens = ("d1" :> 1)
        /\ issued = << [i \in 1..h2 |-> i] >>
        /\ workers = << [doc |-> "d1", alive |-> TRUE,
                         next_handle_id |-> h2 + 1,
                         client_map |-> [c \in 1..h2 |->
                                           IF c = h2 THEN "s2" ELSE "s1"],
                         presence_map |-> upd, open_rx |-> << >>,
                         presence_rx |-> << >>,
                         next_tick |-> age + TickerPeriod, heard |-> upd] >>
        /\ sess = [s \in Sessions |->
                     IF s = "s1"
                     THEN [SessionInit EXCEPT
                             !.state = "Active", !.auth = Some(RootEntry),
                             !.first = [kind |-> "Authenticate", token |-> RootToken],
                             !.next_frame_id = n1 + 1, !.nrecv = n1,
                             !.cur_id = -n1, !.open = ("d1" :> hd1),
                             !.presence_rx = Copies(got, << fr >>)]
                     ELSE [SessionInit EXCEPT
                             !.state = "Active", !.auth = Some(AliceEntry),
                             !.first = [kind |-> "Authenticate", token |-> AliceToken],
                             !.next_frame_id = n2 + 1, !.nrecv = 2 + sent,
                             !.cur_id = -(2 + sent), !.open = ("d1" :> hd2)]]
        /\ wire = [s \in Sessions |->
                     IF s = "s1"
                     THEN [n |-> n1, last |-> FrameNewReply(n1, -n1, "Ok", "", None)]
                     ELSE [n |-> n2,
                           last |-> IF snapshots = 0
                                    THEN FrameNewReply(2, -2, "Ok", "", None)
                                    ELSE FrameNew(n2, "Presence", << fr >>)]]

\* the instant at which SpecPresence starts
StartAge == 2 * TickerPeriod

\* the number of updates after which, with the snapshots that followed, a
\* presence channel fed by one client_map entry has one free slot left
NearlyFull == PresenceChanCap - 1 - StartAge \div TickerPeriod

InitPresence ==
    \E reopened \in BOOLEAN, sent \in {0, NearlyFull} :
        Subscribed(reopened, sent, StartAge)

\* Time passes, a ticker period at a time.  A worker never waits for anyone,
\* so its ticker is served before a whole period has gone by again.
Elapse ==
    /\ now + TickerPeriod <= MaxClock
    /\ \A w \in 1..Len(workers) : workers[w].alive => now < workers[w].next_tick
    /\ now' = now + TickerPeriod
    /\ UNCHANGED << inner, rng, minted, revoked, sess, opens, workers, wire,
                    issued, actor, quota, socket, codec >>

\* the UpdatePresence frames the subscribers of "d1" send in SpecPresence
Updates == [kind : {"UpdatePresence"}, doc : {"d1"}, presence : {"p", "q"}]

PresenceStep(s) ==
    \/ \E f \in Updates, up \in BOOLEAN : RecvUpdatePresence(s, f, up)
    \/ \E up \in BOOLEAN : PresenceSend(s, up)
    \/ \E up \in BOOLEAN : PresenceOut(s, up)
    \/ ReadEnd(s)

NextPresence ==
    \/ \E s \in Sessions : PresenceStep(s)
    \/ \E w \in 1..Len(workers) : WorkerPresence(w) \/ WorkerTick(w)
    \/ Elapse

\* The worker is a task of its own and its presence arm never waits: once
\* an update is in the ingress channel the arm stays ready until select!
\* takes it.  A session waiting in presence_tx.send is woken when the
\* ingress channel has room.
FairPresence ==
    /\ WF_vars(\E w \in 1..Len(workers) : WorkerPresence(w))
    /\ \A s \in Sessions : WF_vars(\E up \in BOOLEAN : PresenceSend(s, up))

SpecPresence == InitPresence /\ [][NextPresence]_vars /\ FairPresence

(* ------------------- Frame and serde_json (SpecCodec) ------------------ *)
\* A JSON value, which is also what a serde_json::Value holds.
JNull == [j |-> "null"]
JNum(n) == [j |-> "num", v |-> n]
JStr(x) == [j |-> "str", v |-> x]
JArr(a) == [j |-> "arr", v |-> a]
JObj(o) == [j |-> "obj", v |-> o]

\* Display and FromStr of DocId: the ULID text of a document id
UlidText == (1 :> "00000000000000000000000001") @@ (2 :> "00000000000000000000000002")
DocIdFromStr(x) ==
    IF \E d \in DOMAIN UlidText : UlidText[d] = x
    THEN Some(CHOOSE d \in DOMAIN UlidText : UlidText[d] = x)
    ELSE None

\* serde's rename_all = "camelCase" on the variants of FrameType
TypeTag ==
    [Authenticate |-> "authenticate", Ok |-> "ok", Error |-> "error",
     MintToken |-> "mintToken", MintTokenResponse |-> "mintTokenResponse",
     RevokeTokensForUser |-> "revokeTokensForUser", Open |-> "open",
     UpdatePresence |-> "updatePresence", Presence |-> "presence",
     UnknownFrame |-> "unknownFrame"]

\* Serialize for Option<T>: None is written as null
SerOptNum(o) == IF o = None THEN JNull ELSE JNum(o[1])
SerOptValue(o) == IF o = None THEN JNull ELSE o[1]

\* Deserialize for Option<T>: a missing member and null both give None
Member(o, k) == IF k \in DOMAIN o THEN o[k] ELSE JNull
DeOptValue(o, k) == IF Member(o, k) = JNull THEN None ELSE Some(Member(o, k))
DeOptNum(o, k) == IF Member(o, k) = JNull THEN None ELSE Some(Member(o, k).v)
Has(o, k, j) == k \in DOMAIN o /\ o[k].j = j

SerPresenceFrame(pf) ==
    JObj(("client" :> JNum(pf.client)) @@ ("doc" :> JStr(UlidText[pf.doc]))
         @@ ("user" :> JStr(pf.user)) @@ ("info" :> SerOptValue(pf.info))
         @@ ("presence" :> SerOptValue(pf.presence)))

\* the members a FrameType adds to the object of its Frame (serde(flatten),
\* tag = "type")
SerFrameType(ft) ==
    ("type" :> JStr(TypeTag[ft.type])) @@
    CASE ft.type \in {"Authenticate", "MintTokenResponse"} ->
            ("token" :> JStr(ft.token))
      [] ft.type = "Error" -> ("error" :> JStr(ft.error))
      [] ft.type = "MintToken" ->
            ("user" :> JStr(ft.user)) @@ ("info" :> SerOptValue(ft.info))
            @@ ("lifetime_seconds" :> JNum(ft.lifetime_seconds))
      [] ft.type = "RevokeTokensForUser" -> ("user" :> JStr(ft.user))
      [] ft.type = "Open" -> ("doc" :> JStr(UlidText[ft.doc]))
      [] ft.type = "UpdatePresence" ->
            ("doc" :> JStr(UlidText[ft.doc])) @@ ("presence" :> ft.presence)
      [] ft.type = "Presence" ->
            ("updates" :> JArr([i \in DOMAIN ft.updates |->
                                   SerPresenceFrame(ft.updates[i])]))
      [] OTHER -> << >>

\* serde_json::to_string(&frame): the JSON object of a Frame
to_string(fr) ==
    ("id" :> JNum(fr.id)) @@ ("replyTo" :> SerOptNum(fr.reply_to))
    @@ SerFrameType(fr.frame)

OkPresenceFrame(x) ==
    /\ x.j = "obj"
    /\ Has(x.v, "client", "num") /\ Has(x.v, "doc", "str")
    /\ DocIdFromStr(x.v["doc"].v) # None
    /\ Has(x.v, "user", "str")

DePresenceFrame(x) ==
    [client |-> x.v["client"].v, doc |-> DocIdFromStr(x.v["doc"].v)[1],
     user |-> x.v["user"].v, info |-> DeOptValue(x.v, "info"),
     presence |-> DeOptValue(x.v, "presence")]

HasDoc(o) == Has(o, "doc", "str") /\ DocIdFromStr(o["doc"].v) # None

\* Deserialize for FrameType: the variant is chosen by the "type" member, an
\* unknown tag gives UnknownFrame (serde(other)); None when a member the
\* variant needs is missing or of the wrong type
DeFrameType(o) ==
    IF ~Has(o, "type", "str") THEN None
    ELSE LET tag == o["type"].v IN
    CASE tag = "authenticate" ->
            IF Has(o, "token", "str")
            THEN Some([type |-> "Authenticate", token |-> o["token"].v])
            ELSE None
      [] tag = "ok" -> Some([type |-> "Ok"])
      [] tag = "error" ->
            IF Has(o, "error", "str")
            THEN Some([type |-> "Error", error |-> o["error"].v])
            ELSE None
      [] tag = "mintToken" ->
            IF Has(o, "user", "str") /\ Has(o, "lifetime_seconds", "num")
            THEN Some([type |-> "MintToken", user |-> o["user"].v,
                       info |-> DeOptValue(o, "info"),
                       lifetime_seconds |-> o["lifetime_seconds"].v])
            ELSE None
      [] tag = "mintTokenResponse" ->
            IF Has(o, "token", "str")
            THEN Some([type |-> "MintTokenResponse", token |-> o["token"].v])
            ELSE None
      [] tag = "revokeTokensForUser" ->
            IF Has(o, "user", "str")
            THEN Some([type |-> "RevokeTokensForUser", user |-> o["user"].v])
            ELSE None
      [] tag = "open" ->
            IF HasDoc(o)
            THEN Some([type |-> "Open", doc |-> DocIdFromStr(o["doc"].v)[1]])
            ELSE None
      [] tag = "updatePresence" ->
            IF HasDoc(o) /\ "presence" \in DOMAIN o
            THEN Some([type |-> "UpdatePresence",
                       doc |-> DocIdFromStr(o["doc"].v)[1],
                       presence |-> o["presence"]])
            ELSE None
      [] tag = "presence" ->
            IF /\ Has(o, "updates", "arr")
               /\ \A i \in DOMAIN o["updates"].v :
                     OkPresenceFrame(o["updates"].v[i])
            THEN Some([type |-> "Presence",
                       updates |-> [i \in DOMAIN o["updates"].v |->
                                       DePresenceFrame(o["updates"].v[i])]])
            ELSE None
      [] OTHER -> Some([type |-> "UnknownFrame"])

\* serde_json::from_str::<Frame>: Some(frame), or None for an error
from_str(o) ==
    IF ~Has(o, "id", "num") \/ DeFrameType(o) = None
       \/ Member(o, "replyTo").j \notin {"null", "num"}
    THEN None
    ELSE Some([id |-> o["id"].v, reply_to |-> DeOptNum(o, "replyTo"),
               frame |-> DeFrameType(o)[1]])

\* the values of a serde_json::Value the frames of SpecCodec carry
Values == {JNull, JStr("v"), JNum(0)}
OptValues == {None} \cup {Some(v) : v \in Values}

PresenceFrames ==
    [client : {1}, doc : {1}, user : {"u"}, info : OptValues,
     presence : OptValues]

FrameTypes ==
    [type : {"Authenticate", "MintTokenResponse"}, token : {"t"}]
    \cup [type : {"Ok", "UnknownFrame"}]
    \cup [type : {"Error"}, error : {"e"}]
    \cup [type : {"MintToken"}, user : {"u"}, info : OptValues,
             lifetime_seconds : {1}]
    \cup [type : {"RevokeTokensForUser"}, user : {"u"}]
    \cup [type : {"Open"}, doc : {1, 2}]
    \cup [type : {"UpdatePresence"}, doc : {1}, presence : Values]
    \cup [type : {"Presence"},
             updates : {<< >>} \cup {<< pf >> : pf \in PresenceFrames}]

\* the frames SpecCodec sends through serde_json
ValidFrames == [id : {-1, 1}, reply_to : {None, Some(-1)}, frame : FrameTypes]

InitCodec ==
    /\ ServerInit
    /\ socket = NoSocket
    /\ \E fr \in ValidFrames :
          codec = [stage |-> "frame", frame |-> fr, text |-> None, back |-> None]

\* Sink::start_send, line 113: the frame is written as JSON
Serialize ==
    /\ codec.stage = "frame"
    /\ codec' = [codec EXCEPT !.stage = "text",
                              !.text = Some(to_string(codec.frame))]
    /\ UNCHANGED << now, inner, rng, minted, revoked, sess, opens, workers,
                    wire, issued, actor, quota, socket >>

\* Stream::poll_next, line 84: the text is parsed as a Frame
Deserialize ==
    /\ codec.stage = "text"
    /\ codec' = [codec EXCEPT !.stage = "back", !.back = from_str(codec.text[1])]
    /\ UNCHANGED << now, inner, rng, minted, revoked, sess, opens, workers,
                    wire, issued, actor, quota, socket >>

NextCodec == Serialize \/ Deserialize

SpecCodec == InitCodec /\ [][NextCodec]_vars

(* ------------- the carriers of a connection (SpecCarrier) -------------- *)
\* SpecCarrier looks at one connection from below the session: what the
\* peer sends, what the carrier makes of it and what reaches the session
\* task that reads the socket in State::accept and State::run.  The carriers
\* are the Adapter of the HTTP multiplexer ("adapter") and, of
\* FramedConnection, the WebSocket carrier ("websocket") and the raw TCP or
\* TLS carrier ("shrub").
Carriers == {"adapter", "websocket", "shrub"}

\* the peer sends at most MaxMessages messages
MaxMessages == 3

\* the text of a message or line: plain text, or the JSON of an object
Plain(x) == [plain |-> x]
Json(o) == [json |-> o]

\* the literal Adapter::poll_next expects, which is also the header of the
\* raw carriers, and the one read_websocket_version_message expects
Handshake == "shrub1\n"
VersionMessage == "shrub1"

\* serde_json::from_str::<Frame>(&msg)
FromText(t) == IF "json" \in DOMAIN t THEN from_str(t.json) ELSE None

\* what the stream below the carrier yields: a message, an error, or its end
Msg(m) == [ev |-> "msg", msg |-> m]
Fail(kind) == [ev |-> "err", kind |-> kind]
End == [ev |-> "end"]
Text(t) == [m |-> "Text", text |-> t]
Binary == [m |-> "Binary"]
Ping == [m |-> "Ping"]
\* on the raw carriers: seven bytes, or a line
Bytes7(t) == [ev |-> "bytes", text |-> t]
Line(t) == [ev |-> "line", text |-> t]

\* Poll<Option<io::Result<Frame>>>
Pending == [p |-> "Pending"]
ReadyNone == [p |-> "None"]
ReadyErr(kind) == [p |-> "Err", kind |-> kind]
ReadyFrame(fr) == [p |-> "Frame", frame |-> fr]

\* transpose_to_io_error and map_tungstenite_result
IoKind(kind) == IF kind = "Io" THEN "Io" ELSE "Other"

AdapterPoll_FramesBeforeHandshake(hs, item) ==
    CASE item.ev = "end" -> [hs |-> hs, out |-> Pending]
      [] item.ev = "err" ->
            [hs |-> hs,
             out |-> IF item.kind = "ConnectionClosed" THEN ReadyNone
                     ELSE ReadyErr(IoKind(item.kind))]
      [] OTHER ->
            IF item.msg.m # "Text" THEN [hs |-> hs, out |-> Pending]
            ELSE IF FromText(item.msg.text) = None
                 THEN [hs |-> hs, out |-> ReadyErr("InvalidData")]
                 ELSE [hs |-> hs, out |-> ReadyFrame(FromText(item.msg.text)[1])]

\* Adapter::poll_next, given what the WebSocketStream below has yielded
AdapterPoll(hs, item) ==
    CASE item.ev = "end" -> [hs |-> hs, out |-> Pending]
      [] item.ev = "err" ->
            [hs |-> hs,
             out |-> IF item.kind = "ConnectionClosed" THEN ReadyNone
                     ELSE ReadyErr(IoKind(item.kind))]
      [] OTHER ->
            IF item.msg.m # "Text" THEN [hs |-> hs, out |-> Pending]
            ELSE CASE hs = "Pre" ->
                        IF item.msg.text # Plain(Handshake)
                        THEN [hs |-> hs, out |-> ReadyErr("InvalidData")]
                        ELSE [hs |-> "Post", out |-> Pending]
                   [] hs = "Missing" ->
                        [hs |-> hs, out |-> ReadyErr("InvalidData")]
                   [] OTHER ->
                        IF FromText(item.msg.text) = None
                        THEN [hs |-> hs, out |-> ReadyErr("InvalidData")]
                        ELSE [hs |-> hs,
                              out |-> ReadyFrame(FromText(item.msg.text)[1])]

\* poll_websocket_next of FramedConnection
WebSocketPoll(item) ==
    CASE item.ev = "end" -> ReadyNone
      [] item.ev = "err" -> ReadyErr(IoKind(item.kind))
      [] OTHER ->
            CASE item.msg.m = "Binary" -> ReadyErr("InvalidData")
              [] item.msg.m # "Text" -> Pending
              [] OTHER ->
                    IF FromText(item.msg.text) = None
                    THEN ReadyErr("InvalidData")
                    ELSE ReadyFrame(FromText(item.msg.text)[1])

\* Framed<_, ShrubCodec>::poll_next: a line is decoded, the end is passed on
ShrubPoll(item) ==
    CASE item.ev = "end" -> ReadyNone
      [] item.ev = "err" -> ReadyErr(IoKind(item.kind))
      [] OTHER ->
            IF FromText(item.text) = None THEN ReadyErr("InvalidData")
            ELSE ReadyFrame(FromText(item.text)[1])

\* read_websocket_version_message and read_shrub_version_header on one item:
\* "ok", "again" (a control message is skipped) or "err"
ReadVersion(carrier, item) ==
    IF carrier = "websocket"
    THEN CASE item.ev # "msg" -> "err"
           [] item.msg.m = "Binary" -> "err"
           [] item.msg.m # "Text" -> "again"
           [] OTHER -> IF item.msg.text = Plain(VersionMessage) THEN "ok"
                       ELSE "err"
    ELSE IF item = Bytes7(Plain(Handshake)) THEN "ok" ELSE "err"

\* The connection when the carrier is handed the socket.  The Adapter is
\* built at once and reads its handshake in poll_next; accept_websocket and
\* accept_shrub read the version first (stage "version").
\*   inbox  what the peer has sent and the carrier has not read yet
\*   fin    the peer has closed: after the inbox the stream below has ended
\*   task   the session task: "polling" when its next poll of the socket is
\*          due, "parked" when the carrier has returned Pending though the
\*          stream below was ready, so that no waker is registered, "done"
\*          when accept or run has returned and the State is dropped
\*   seen, frames   history: the items consumed, the frames surfaced
\*   down   what the accepting side has written
\*   peer_hs, peer_frames   the connecting side: whether it has read a
\*          header, and the frames it has decoded
SocketNew(carrier) ==
    [carrier |-> carrier,
     stage |-> IF carrier = "adapter" THEN "frames" ELSE "version",
     hs |-> "Pre", inbox |-> << >>, fin |-> FALSE, sent |-> 0,
     task |-> "polling", exit |-> "none", seen |-> << >>, frames |-> << >>,
     down |-> << >>, peer_hs |-> FALSE, peer_frames |-> << >>]

InitCarrier ==
    /\ ServerInit
    /\ codec = NoCodec
    /\ \E carrier \in Carriers : socket = SocketNew(carrier)

\* the frames the peer sends and the reply the session writes
AuthFrame == [id |-> -1, reply_to |-> None,
              frame |-> [type |-> "Authenticate", token |-> "t"]]
OkFrame == [id |-> 1, reply_to |-> Some(-1), frame |-> [type |-> "Ok"]]

\* what a peer may send: on the WebSocket carriers any message, on the raw
\* carriers any bytes
PeerItems(carrier) ==
    IF carrier = "shrub"
    THEN {Bytes7(Plain(Handshake)), Bytes7(Plain("shrub0\n")),
          Line(Json(to_string(AuthFrame))), Line(Plain("junk"))}
    ELSE {Msg(Text(Plain(Handshake))), Msg(Text(Plain(VersionMessage))),
          Msg(Text(Json(to_string(AuthFrame)))), Msg(Text(Plain("junk"))),
          Msg(Binary), Msg(Ping)}

\* how a connection comes to its end below the carrier
Closings(carrier) ==
    IF carrier = "shrub" THEN {"end", "Io"}
    ELSE {"end", "ConnectionClosed", "Io", "Protocol"}

ServerUnchanged ==
    UNCHANGED << now, inner, rng, minted, revoked, sess, opens, workers,
                 wire, issued, actor, quota, codec >>

PeerSend ==
    /\ socket.carrier # "none"
    /\ ~socket.fin
    /\ socket.sent < MaxMessages
    /\ \E item \in PeerItems(socket.carrier) :
          socket' = [socket EXCEPT !.inbox = Append(@, item), !.sent = @ + 1]
    /\ ServerUnchanged

\* The peer closes the connection, or the connection breaks.  The stream
\* below then yields an error (ConnectionClosed or another one) and ends, or
\* just ends: tokio-tungstenite turns ConnectionClosed into the end of the
\* stream itself.
PeerClose ==
    /\ socket.carrier # "none"
    /\ ~socket.fin
    /\ \E how \in Closings(socket.carrier) :
          socket' = [socket EXCEPT
                       !.fin = TRUE,
                       !.inbox = IF how = "end" THEN @ ELSE Append(@, Fail(how))]
    /\ ServerUnchanged

\* the session task, having got `out` from socket.next(): State::accept,
\* lines 91-94, and State::run, lines 145-149
Reading(sk, out) ==
    CASE out.p = "Frame" -> [sk EXCEPT !.frames = Append(@, out.frame)]
      [] out.p = "None" -> [sk EXCEPT !.task = "done", !.exit = "eof"]
      [] out.p = "Err" -> [sk EXCEPT !.task = "done", !.exit = out.kind]
      [] OTHER -> [sk EXCEPT !.task = "parked"]

\* The task polls the socket when the stream below has something to yield.
Poll ==
    /\ socket.carrier # "none"
    /\ socket.task = "polling"
    /\ socket.inbox # << >> \/ socket.fin
    /\ LET item == IF socket.inbox # << >> THEN Head(socket.inbox) ELSE End
           sk   == [socket EXCEPT
                      !.inbox = IF @ = << >> THEN @ ELSE Tail(@),
                      !.seen = IF item = End THEN @ ELSE Append(@, item)]
       IN socket' =
            IF socket.stage = "version"
            THEN CASE ReadVersion(socket.carrier, item) = "ok" ->
                         [sk EXCEPT !.stage = "frames"]
                   [] ReadVersion(socket.carrier, item) = "again" -> sk
                   [] OTHER -> [sk EXCEPT !.task = "done", !.exit = "handshake"]
            ELSE CASE socket.carrier = "adapter" ->
                         LET r == AdapterPoll(socket.hs, item)
                         IN Reading([sk EXCEPT !.hs = r.hs], r.out)
                   [] socket.carrier = "websocket" ->
                         Reading(sk, WebSocketPoll(item))
                   [] OTHER -> Reading(sk, ShrubPoll(item))
    /\ ServerUnchanged

\* A parked task is polled again only if something else wakes it, such as a
\* batch on the presence channel that State::run selects on.
Repoll ==
    /\ socket.task = "parked"
    /\ socket' = [socket EXCEPT !.task = "polling"]
    /\ ServerUnchanged

\* Sink::start_send and ShrubCodec::encode: the session answers a frame
Reply ==
    /\ socket.task # "done"
    /\ Len(socket.down) < Len(socket.frames)
    /\ socket' = [socket EXCEPT !.down =
                    Append(@, IF socket.carrier = "shrub"
                              THEN Line(Json(to_string(OkFrame)))
                              ELSE Msg(Text(Json(to_string(OkFrame)))))]
    /\ ServerUnchanged

\* establish_shrub, lines 28-31: the connecting side writes the header and
\* hands the socket to the codec, which decodes whatever line comes next
PeerRead ==
    /\ socket.carrier = "shrub"
    /\ Len(socket.peer_frames) < Len(socket.down)
    /\ LET item == socket.down[Len(socket.peer_frames) + 1]
       IN socket' = [socket EXCEPT !.peer_frames = Append(@, FromText(item.text))]
    /\ ServerUnchanged

NextCarrier == PeerSend \/ PeerClose \/ Poll \/ Repoll \/ Reply \/ PeerRead

\* The session task is polled whenever it has been woken, and SpecCarrier
\* grants a parked task that it is woken again.
FairCarrier == WF_vars(Poll) /\ WF_vars(Repoll)

SpecCarrier == InitCarrier /\ [][NextCarrier]_vars /\ FairCarrier

\* In State::accept the task awaits nothing but socket.next() (line 91):
\* it is polled whenever it has been woken, and a task the carrier has
\* parked may be polled again (Repoll) but nothing in the code sees to it.
FairAccept == WF_vars(Poll)

SpecAccept == InitCarrier /\ [][NextCarrier]_vars /\ FairAccept

(* ---------- sessions that outlive their tokens (SpecServed) ----------- *)
\* SpecServed starts at instant 0 where s1 has authenticated with the root
\* token (frame -1), minted a token with a lifetime of one second for user
\* u (-2) and opened "d1" (-3), and s2 has authenticated with that token
\* (-1) and opened "d1" (-2).  From there the sessions send further frames
\* of every kind; s1 may revoke the tokens of u, and the clock may advance
\* by a ticker period, which takes it past the expiry of s2's token.
\* the connections deliver at most MaxServed further frames
MaxServed == 2

ServedToken == random_alphanum(0)
ServedEntry(u) == Entry(u, 1, << "i" >>)

Served(u) ==
    LET hd1 == [doc |-> "d1", id |-> 1, user |-> RootEntry.user,
                user_info |-> RootEntry.info, worker |-> 1]
        hd2 == [doc |-> "d1", id |-> 2, user |-> u,
                user_info |-> ServedEntry(u).info, worker |-> 1]
    IN  /\ now = 0
        /\ inner = mint_token(AuthorizerNew(RootToken), ServedEntry(u), ServedToken)
        /\ rng = 1
        /\ minted = (ServedToken :> u)
        /\ revoked = {}
        /\ actor = NoActor
        /\ quota = MaxServed
        /\ socket = NoSocket
        /\ codec = NoCodec
        /\ opens = ("d1" :> 1)
        /\ issued = << << 1, 2 >> >>
        /\ workers = << [doc |-> "d1", alive |-> TRUE, next_handle_id |-> 3,
                         client_map |-> << "s1", "s2" >>,
                         presence_map |-> << >>, open_rx |-> << >>,
                         presence_rx |-> << >>, next_tick |-> TickerPeriod,
                         heard |-> << >>] >>
        /\ sess = [s \in Sessions |->
                     IF s = "s1"
                     THEN [SessionInit EXCEPT
                             !.state = "Active", !.auth = Some(RootEntry),
                             !.first = [kind |-> "Authenticate", token |-> RootToken],
                             !.next_frame_id = 4, !.nrecv = 3, !.cur_id = -3,
                             !.open = ("d1" :> hd1)]
                     ELSE [SessionInit EXCEPT
                             !.state = "Active", !.auth = Some(ServedEntry(u)),
                             !.first = [kind |-> "Authenticate", token |-> ServedToken],
                             !.next_frame_id = 3, !.nrecv = 2, !.cur_id = -2,
                             !.open = ("d1" :> hd2)]]
        /\ wire = [s \in Sessions |->
                     IF s = "s1"
                     THEN [n |-> 3, last |-> FrameNewReply(3, -3, "Ok", "", None)]
                     ELSE [n |-> 2, last |-> FrameNewReply(2, -2, "Ok", "", None)]]

InitServed == \E u \in FrameUsers : Served(u)

\* the frames an Active session is served
ServedStep(s) ==
    \/ ReadEnd(s)
    \/ \E f \in OfKind("Error"), up \in BOOLEAN : RecvError(s, f, up)
    \/ \E f \in InboundFrames : RecvUnknown(s, f)
    \/ AdminStep(s)
    \/ DocStep(s)

NextServed ==
    \/ \E s \in Sessions : ServedStep(s)
    \/ \E w \in 1..Len(workers) : WorkerStep(w)
    \/ now = 0 /\ Elapse

SpecServed == InitServed /\ [][NextServed]_vars

(* ====================== properties of the server ====================== *)
WorkersOf(d) == {w \in 1..Len(workers) : workers[w].doc = d /\ workers[w].alive}
InOpen(s) == sess[s].pc \in {"open_send", "open_wait"}

\* C1: for every DocId, at most one doc_worker task bound to it is alive,
\* whatever open calls the sessions have in progress.
C1_AtMostOneWorkerPerDoc ==
    \A d \in Docs : Cardinality(WorkersOf(d)) <= 1

\* two sessions are inside DocManager::open for the same DocId at once
C1_Witness ==
    \E s, t \in Sessions :
        /\ s # t /\ InOpen(s) /\ InOpen(t)
        /\ sess[s].cur.doc = sess[t].cur.doc
        /\ Cardinality(WorkersOf(sess[s].cur.doc)) = 1

\* C2: the handles one worker has built carry the ids 1, 2, 3, ... in the
\* order of the requests it served, hence pairwise distinct ids; and two
\* sessions holding handles of the same worker hold different client ids.
C2_DistinctClientIds ==
    /\ \A w \in 1..Len(issued) :
          \A i \in 1..Len(issued[w]) :
             /\ issued[w][i] = i
             /\ \A j \in 1..Len(issued[w]) : i # j => issued[w][i] # issued[w][j]
    /\ \A s, t \in Sessions : \A d \in Docs :
          (s # t /\ d \in DOMAIN sess[s].open /\ d \in DOMAIN sess[t].open
             /\ sess[s].open[d].worker = sess[t].open[d].worker)
          => sess[s].open[d].id # sess[t].open[d].id

\* two sessions that were inside open for one DocId both hold their handles
C2_Witness ==
    \E s, t \in Sessions : \E d \in Docs :
        /\ s # t /\ d \in DOMAIN sess[s].open /\ d \in DOMAIN sess[t].open
        /\ sess[s].open[d].worker = sess[t].open[d].worker
        /\ Len(issued[sess[s].open[d].worker]) >= 2

\* C3: on each connection a step writes at most one frame, the first frame
\* written has id 1 and every later one has an id greater than the frame
\* written before it.
C3_ServerIdsIncrease ==
    [][\A s \in Sessions :
         wire'[s].n # wire[s].n =>
            /\ wire'[s].n = wire[s].n + 1
            /\ wire[s].n = 0 => wire'[s].last.id = 1
            /\ wire[s].n > 0 => wire'[s].last.id > wire[s].last.id]_vars

\* a connection on which replies were written and then a presence broadcast
C3_Witness ==
    \E s \in Sessions :
        /\ wire[s].n >= 3
        /\ wire[s].last.kind = "Presence"
        /\ wire[s].last.id > 1

ReceivedIds(s) == {-k : k \in 1..sess[s].nrecv}

\* C4: a frame written with reply_to set names an inbound frame read earlier
\* on the same connection, and a Presence frame has no reply_to.
C4_ReplyToNamesInbound ==
    \A s \in Sessions :
        wire[s].n > 0 =>
           /\ wire[s].last.reply_to # None
                 => wire[s].last.reply_to[1] \in ReceivedIds(s)
           /\ wire[s].last.kind = "Presence" => wire[s].last.reply_to = None
           /\ wire[s].last.kind # "Presence" => wire[s].last.reply_to # None

\* a reply to the third inbound frame of a connection stands on the wire
\* while the other connection has been answered too
C4_Witness ==
    \E s, t \in Sessions :
        /\ s # t
        /\ wire[s].n >= 2 /\ wire[s].last.reply_to = Some(-3)
        /\ wire[t].n >= 1 /\ wire[t].last.reply_to = Some(-1)

(* ===================== properties of the Authorizer ==================== *)
Stored(t) == t \in DOMAIN inner.by_token

\* C5: authenticate(t) returns an entry exactly when t is the root token or
\* t is stored with an expiry strictly later than now; a stored token whose
\* expiry is <= now is not authenticated.
C5_AuthenticatesIffExpiryAfterNow ==
    actor.kind = "authenticate" =>
        /\ actor.result # None
              <=> \/ actor.token = RootToken
                  \/ Stored(actor.token) /\ inner.by_token[actor.token].expiry > now
        /\ (Stored(actor.token) /\ inner.by_token[actor.token].expiry <= now
               /\ actor.token # RootToken)
              => actor.result = None

\* C6: once revoke_tokens_for_user(u) has run for a user u other than root,
\* no token minted for u before it authenticates again, and the call leaves
\* the result of authenticate for every token of another user as it was.
C6_RevokedTokensStayRejected ==
    /\ [](\A t \in revoked : authenticate(inner, t, now) = None)
    /\ [][(actor'.kind = "revoke_tokens_for_user" /\ actor'.user # "root") =>
            \A t \in DOMAIN minted :
               minted[t] # actor'.user =>
                  authenticate(inner', t, now') = authenticate(inner, t, now)]_vars

\* a revocation has just removed one user's token while a token of another
\* user is stored and still authenticates
C6_Witness ==
    /\ actor.kind = "revoke_tokens_for_user"
    /\ \E t \in revoked : minted[t] = actor.user
    /\ \E t \in DOMAIN minted :
          /\ minted[t] \notin {actor.user, "root"}
          /\ authenticate(inner, t, now) # None

\* C7: the root token the server was started with always authenticates, and
\* the entry it yields names the user "root".
C7_RootTokenAuthenticates ==
    /\ authenticate(inner, RootToken, now) # None
    /\ authenticate(inner, RootToken, now)[1].user = "root"

\* revoke_tokens_for_user("root") has just been called while a token minted
\* for the user "root" is on record
C7_Witness ==
    /\ actor.kind = "revoke_tokens_for_user"
    /\ actor.user = "root"
    /\ \E t \in DOMAIN minted : minted[t] = "root"

(* ================== properties of the session protocol ================= *)
\* C8: no minted token authenticates as the user "root", whatever user the
\* MintToken frame named, and a session that authenticated with a minted
\* token never passes the root-only checks.
C8_NoMintedTokenIsRoot ==
    /\ \A t \in DOMAIN minted :
          \/ authenticate(inner, t, now) = None
          \/ authenticate(inner, t, now)[1].user # "root"
    /\ \A s \in Sessions :
          (sess[s].state = "Active" /\ sess[s].first.token # RootToken)
             => ~IsRoot(sess[s])

Backend == << inner, rng, minted, revoked, opens, workers, issued >>

\* C9: a session leaves PreAuth for Active only by reading, as its first
\* frame, an Authenticate whose token the Authorizer accepts; a step of a
\* session in PreAuth changes nothing in the Authorizer, the DocManager or
\* the workers; any other first frame closes the session, and a closed
\* session never becomes Active.
C9_ActiveOnlyByAuthenticate ==
    [][\A s \in Sessions :
         /\ (sess[s].state = "PreAuth" /\ sess'[s] # sess[s]) =>
               /\ Backend' = Backend
               /\ sess'[s].state = "Active" =>
                     /\ sess[s].nrecv = 0
                     /\ sess'[s].first.kind = "Authenticate"
                     /\ authenticate(inner, sess'[s].first.token, now) # None
                     /\ sess'[s].auth = authenticate(inner, sess'[s].first.token, now)
               /\ (sess'[s].nrecv = 1 /\ sess'[s].first.kind # "Authenticate")
                     => sess'[s].state = "Closed"
               /\ sess'[s].state \in {"Active", "Closed"}
         /\ sess[s].state = "Closed" => sess'[s].state = "Closed"
         /\ sess'[s].state = "Active" => sess[s].state \in {"PreAuth", "Active"}]_vars

\* one session is Active with a worker serving it, and another one was
\* closed on a first frame that was an Open
C9_Witness ==
    \E s, t \in Sessions :
        /\ sess[s].state = "Active" /\ sess[s].first.kind = "Authenticate"
        /\ Len(workers) > 0
        /\ sess[t].state = "Closed" /\ sess[t].first.kind = "Open"

ExpectedAuthenticate ==
    FrameNewReply(1, -1, "Error", "Expected Authenticate frame", None)

\* C10: when the first frame of a connection is not an Authenticate, the
\* server writes Error{"Expected Authenticate frame"} with reply_to set to
\* that frame's id and then closes the connection.
C10_ErrorOnUnexpectedFirstFrame ==
    \A s \in Sessions :
        (sess[s].state = "Closed" /\ sess[s].nrecv > 0
           /\ sess[s].first.kind # "Authenticate" /\ sess[s].wr_ok)
        => /\ wire[s].n = 1
           /\ wire[s].last = ExpectedAuthenticate

\* the first frame of connection s is read by this step
FirstRead(s) == sess[s].state = "PreAuth" /\ sess'[s].nrecv = 1

\* C11: when the first frame is an Authenticate whose token the Authorizer
\* rejects, the server writes exactly one frame, Error{"invalid token"} with
\* id 1 and reply_to the frame's id (nothing if that write fails), and the
\* session is closed; a closed session reads no further frame, writes
\* nothing and never becomes Active.
C11_InvalidTokenErrorThenClose ==
    [][\A s \in Sessions :
         /\ (FirstRead(s) /\ sess'[s].first.kind = "Authenticate"
                /\ authenticate(inner, sess'[s].first.token, now) = None) =>
               /\ sess'[s].state = "Closed"
               /\ wire[s].n = 0
               /\ sess'[s].wr_ok =>
                     wire'[s] = [n |-> 1,
                                 last |-> FrameNewReply(1, sess'[s].cur_id, "Error",
                                                        "invalid token", None)]
               /\ ~sess'[s].wr_ok => wire'[s] = wire[s]
         /\ sess[s].state = "Closed" =>
               /\ sess'[s] = sess[s]
               /\ wire'[s] = wire[s]]_vars

\* a connection was closed on an Authenticate whose token had been revoked,
\* with the one Error frame written
C11_Witness ==
    \E s \in Sessions :
        /\ sess[s].state = "Closed" /\ sess[s].nrecv = 1
        /\ sess[s].first.kind = "Authenticate"
        /\ sess[s].first.token \in revoked
        /\ wire[s].n = 1 /\ wire[s].last.error = "invalid token"
        /\ wire[s].last.reply_to = Some(-1)

AuthUser(s) == sess[s].auth[1].user
AuthorizerState == << inner, rng, minted, revoked >>

\* the connection of s after the reply Error{message} to the frame this step
\* reads has been written
ErrorWritten(s, message) ==
    [n    |-> wire[s].n + 1,
     last |-> FrameNewReply(sess[s].next_frame_id, InboundId(s), "Error",
                            message, None)]

\* the step answers the frame it reads with Error{message}, unless the write
\* fails, and leaves session s Active and ready for the next frame
AnsweredWithError(s, message) ==
    /\ sess'[s].state = "Active" /\ sess'[s].pc = "select"
    /\ sess'[s].nrecv = sess[s].nrecv + 1
    /\ sess'[s].auth = sess[s].auth /\ sess'[s].open = sess[s].open
    /\ sess'[s].wr_ok => wire'[s] = ErrorWritten(s, message)
    /\ ~sess'[s].wr_ok => wire'[s] = wire[s]

\* the step is one in which the Active session s reads a frame
Reads(s) == sess[s].state = "Active" /\ sess'[s].nrecv = sess[s].nrecv + 1

AdminFrames == OfKind("MintToken") \cup OfKind("RevokeTokensForUser")

\* C12: a MintToken or RevokeTokensForUser frame read by a session whose
\* user is not "root" is answered with Error{"forbidden"} carrying the
\* frame's id as reply_to, creates and removes no token, and leaves the
\* session Active.
C12_ForbiddenForNonRoot ==
    [][\A s \in Sessions :
         (Reads(s) /\ AuthUser(s) # "root") =>
            \A f \in AdminFrames : \A up \in BOOLEAN :
               (RecvMintToken(s, f, up) \/ RecvRevoke(s, f, up)) =>
                  /\ AuthorizerState' = AuthorizerState
                  /\ AnsweredWithError(s, "forbidden")]_vars

\* a session of a user other than root has been refused while tokens are
\* stored in the Authorizer
C12_Witness ==
    \E s \in Sessions :
        /\ sess[s].state = "Active" /\ AuthUser(s) # "root"
        /\ wire[s].n = 2 /\ wire[s].last.error = "forbidden"
        /\ wire[s].last.reply_to = Some(-2)
        /\ DOMAIN inner.by_token # {}

RootRevocations == {f \in OfKind("RevokeTokensForUser") : f.user = "root"}

\* C13: RevokeTokensForUser{user: "root"} read by a root session is answered
\* with Error{"cannot use RevokeTokensForUser on root"}, leaves the
\* Authorizer as it was, and the session stays Active, ready for the next
\* frame.
C13_RootCannotBeRevoked ==
    [][\A s \in Sessions :
         (Reads(s) /\ AuthUser(s) = "root") =>
            \A f \in RootRevocations : \A up \in BOOLEAN :
               RecvRevoke(s, f, up) =>
                  /\ AuthorizerState' = AuthorizerState
                  /\ AnsweredWithError(s, "cannot use RevokeTokensForUser on root")]_vars

\* a root session was refused the revocation of root, tokens being stored,
\* and can read its next frame
C13_Witness ==
    \E s \in Sessions :
        /\ sess[s].state = "Active" /\ AuthUser(s) = "root"
        /\ wire[s].last.error = "cannot use RevokeTokensForUser on root"
        /\ DOMAIN inner.by_token # {}
        /\ CanRead(s)

(* =================== properties of the presence plane ================== *)
\* the client_map entries of worker w, other than client c, that hold the
\* sender of session t's presence channel
OtherEntries(w, c, t) ==
    {e \in DOMAIN workers[w].client_map :
        e # c /\ workers[w].client_map[e] = t}

FreeSlots(t) == PresenceChanCap - Len(sess[t].presence_rx)

\* what this step has added to the presence channel of session t
Added(t) ==
    SubSeq(sess'[t].presence_rx, Len(sess[t].presence_rx) + 1,
           Len(sess'[t].presence_rx))
Extended(t) ==
    /\ Len(sess'[t].presence_rx) >= Len(sess[t].presence_rx)
    /\ SubSeq(sess'[t].presence_rx, 1, Len(sess[t].presence_rx))
          = sess[t].presence_rx

\* C14: an UpdatePresence{doc, presence} a session sends through its handle
\* becomes the PresenceFrame {client: the handle's id, doc, the session's
\* user and info, presence}; when the worker takes it from its ingress it
\* records it as presence_map[client] and every other client_map entry
\* whose presence channel is open and not full gets one batch holding
\* exactly that frame.
C14_UpdateFannedOutToOthers ==
    [][/\ \A s \in Sessions :
            Reads(s) =>
               \A f \in Updates :
                  (RecvUpdatePresence(s, f, TRUE) /\ f.doc \in DOMAIN sess[s].open) =>
                     sess'[s].pending =
                        Some([worker |-> sess[s].open[f.doc].worker,
                              last_update |-> now,
                              frame |-> [client |-> sess[s].open[f.doc].id,
                                         doc |-> f.doc,
                                         user |-> AuthUser(s),
                                         info |-> sess[s].auth[1].info,
                                         presence |-> Some(f.presence)]])
       /\ \A s \in Sessions :
            (sess[s].pc = "presence_send" /\ sess'[s].pc = "select"
               /\ sess'[s].state = "Active") =>
               LET p == sess[s].pending[1]
               IN workers'[p.worker].presence_rx =
                     Append(workers[p.worker].presence_rx,
                            [last_update |-> p.last_update, frame |-> p.frame])
       /\ \A w \in 1..Len(workers) :
            (workers'[w] # workers[w] /\ WorkerPresence(w)) =>
               LET u == Head(workers[w].presence_rx)
                   c == u.frame.client
               IN /\ u.frame.doc = workers[w].doc
                  /\ c \in DOMAIN workers[w].client_map
                  /\ c \in DOMAIN workers'[w].presence_map
                  /\ workers'[w].presence_map[c] = u
                  /\ \A t \in Sessions :
                        sess[t].state = "Active" =>
                           /\ Extended(t)
                           /\ Len(Added(t)) =
                                 Min(Cardinality(OtherEntries(w, c, t)), FreeSlots(t))
                           /\ \A i \in DOMAIN Added(t) : Added(t)[i] = << u.frame >>
      ]_vars

\* the worker has recorded an update of one session, and the other session,
\* whose presence channel had one free slot left, has got it and is full now
C14_Witness ==
    \E s, t \in Sessions :
        /\ s # t /\ sess[s].state = "Active" /\ sess[t].state = "Active"
        /\ Len(sess[t].presence_rx) = PresenceChanCap
        /\ LET h == sess[s].open["d1"]
               b == sess[t].presence_rx[PresenceChanCap]
           IN /\ h.id \in DOMAIN workers[1].presence_map
              /\ workers[1].presence_map[h.id].last_update >= StartAge
              /\ b = << workers[1].presence_map[h.id].frame >>
              /\ b[1].presence = Some("q")
              /\ b[1].user = AuthUser(s)

\* the session that was given the handle with client id c of worker w
Emitter(w, c) == workers[w].client_map[c]

\* C15: the fan-out of an update never puts anything on the presence channel
\* of the session that emitted it, whatever Open and UpdatePresence frames
\* the sessions have sent.
C15_NoEchoToSender ==
    [][\A w \in 1..Len(workers) :
         (workers'[w] # workers[w] /\ WorkerPresence(w)) =>
            LET c == Head(workers[w].presence_rx).frame.client
            IN sess'[Emitter(w, c)].presence_rx = sess[Emitter(w, c)].presence_rx
      ]_vars

\* the updates waiting in the ingress channel of the worker of document d
Ingress(d) ==
    IF d \in DOMAIN opens THEN workers[opens[d]].presence_rx ELSE << >>

\* session t takes no batch: its presence channel is full, or its receiver
\* has been dropped with the session
Stalled(t) ==
    \/ sess[t].state # "Active"
    \/ Len(sess[t].presence_rx) = PresenceChanCap

\* C16: a subscriber that does not drain its presence channel, or is gone,
\* never holds up the worker or the other sessions: the presence arm is
\* ready whenever an update waits in the ingress channel, every update a
\* session hands to update_presence reaches the ingress channel and every
\* update there is consumed; the step that consumes it leaves a full or
\* closed channel as it was and still delivers to every other subscriber
\* that has room.
C16_SlowSubscriberNeverBlocks ==
    /\ \A d \in Docs :
          [](Ingress(d) # << >> => ENABLED WorkerPresence(opens[d]))
    /\ \A d \in Docs : (Ingress(d) # << >>) ~> (Ingress(d) = << >>)
    /\ \A s \in Sessions :
          (sess[s].pc = "presence_send") ~> (sess[s].pc # "presence_send")
    /\ [][\A w \in 1..Len(workers) :
            (workers'[w] # workers[w] /\ WorkerPresence(w)) =>
               LET c == Head(workers[w].presence_rx).frame.client
               IN \A t \in Sessions :
                     /\ Stalled(t) =>
                           sess'[t].presence_rx = sess[t].presence_rx
                     /\ (~Stalled(t) /\ OtherEntries(w, c, t) # {}) =>
                           Len(sess'[t].presence_rx) > Len(sess[t].presence_rx)
         ]_vars

\* s1 has never drained its presence channel, which is full; an update that
\* s2 sent after that has been consumed by the worker and is the latest it
\* has heard from s2
C16_Witness ==
    /\ sess["s1"].state = "Active"
    /\ Len(sess["s1"].presence_rx) = PresenceChanCap
    /\ sess["s2"].pc = "select"
    /\ Ingress("d1") = << >>
    /\ \E c \in DOMAIN workers[1].heard :
          /\ workers[1].client_map[c] = "s2"
          /\ workers[1].heard[c].last_update >= StartAge
          /\ workers[1].heard[c].frame.presence = Some("q")

\* the clients whose entry in the presence_map of worker w is younger than
\* PresenceTtl at the present instant
Fresh(w) ==
    {c \in DOMAIN workers[w].presence_map :
        now - workers[w].presence_map[c].last_update < PresenceTtl}

\* the client_map entries of worker w that hold the sender of session t's
\* presence channel
Entries(w, t) ==
    {e \in DOMAIN workers[w].client_map : workers[w].client_map[e] = t}

\* C17: when the ticker of a worker fires, the entries that are not younger
\* than PresenceTtl are evicted; if none is left nothing is sent; otherwise
\* one batch is built that holds, for every client left, exactly one frame,
\* the latest update the worker has taken from that client, and that same
\* batch is offered once to every client_map entry: a session gets as many
\* copies as it has entries and free slots, so a session with room gets it.
C17_TickSendsSnapshot ==
    [][\A w \in 1..Len(workers) :
         (workers'[w].next_tick # workers[w].next_tick /\ WorkerTick(w)) =>
            /\ DOMAIN workers'[w].presence_map = Fresh(w)
            /\ Fresh(w) = {} => sess' = sess
            /\ Fresh(w) # {} =>
                  \E o \in Orders(Fresh(w)) :
                     LET b == [i \in DOMAIN o |-> workers[w].heard[o[i]].frame]
                     IN \A t \in Sessions :
                           IF sess[t].state = "Active"
                           THEN /\ Extended(t)
                                /\ Added(t) =
                                      Copies(Min(Cardinality(Entries(w, t)),
                                                 FreeSlots(t)), b)
                           ELSE sess'[t] = sess[t]
      ]_vars

\* both sessions have sent an update since the last tick, s2 for the second
\* time, and the tick that followed a period later has put into a presence
\* channel a snapshot of two frames, one per client, each the latest update
\* of its client
C17_Witness ==
    /\ now >= StartAge + TickerPeriod
    /\ workers[1].next_tick > now
    /\ Cardinality(DOMAIN workers[1].presence_map) = 2
    /\ \E t \in Sessions :
          /\ sess[t].state = "Active"
          /\ sess[t].presence_rx # << >>
          /\ LET b == sess[t].presence_rx[Len(sess[t].presence_rx)]
             IN /\ Len(b) = 2
                /\ b[1].client # b[2].client
                /\ \A i \in 1..2 :
                      /\ b[i] = workers[1].heard[b[i].client].frame
                      /\ workers[1].heard[b[i].client].last_update >= StartAge
                /\ \E i \in 1..2 : b[i].presence = Some("q")

(* ================= properties of Open and UpdatePresence =============== *)
\* the largest of a non-empty set of client ids
Latest(S) == CHOOSE x \in S : \A y \in S : y <= x

\* C18: an Open{d} read by an Active session is never refused because d is
\* open already; when DocManager::open returns, the handle is stored under d
\* in place of any earlier one, so that open[d] is the single handle for d
\* and the one its worker issued to the session last, and Ok is written with
\* the frame's id as reply_to; an UpdatePresence{d, p} read while d is in
\* the open map is handed to that worker under the id of that handle and no
\* Error is written.
C18_OpenTwiceKeepsLastHandle ==
    [][\A s \in Sessions :
         /\ (Reads(s) /\ \E f \in OfKind("Open") : RecvOpen(s, f)) =>
               /\ sess'[s].pc = "open_send"
               /\ wire'[s] = wire[s]
         /\ (sess[s].pc = "open_wait" /\ sess'[s].pc = "select") =>
               LET h == sess[s].reply[1]
                   d == sess[s].cur.doc
               IN /\ h.doc = d
                  /\ h.id = Latest(Entries(h.worker, s))
                  /\ sess'[s].wr_ok =>
                        /\ sess'[s].state = "Active"
                        /\ DOMAIN sess'[s].open = DOMAIN sess[s].open \cup {d}
                        /\ sess'[s].open[d] = h
                        /\ \A e \in DOMAIN sess[s].open \ {d} :
                              sess'[s].open[e] = sess[s].open[e]
                        /\ wire'[s] =
                              [n    |-> wire[s].n + 1,
                               last |-> FrameNewReply(sess[s].next_frame_id,
                                                      sess[s].cur_id, "Ok", "",
                                                      None)]
         /\ Reads(s) =>
               \A f \in OfKind("UpdatePresence") : \A up \in BOOLEAN :
                  (RecvUpdatePresence(s, f, up) /\ f.doc \in DOMAIN sess[s].open) =>
                     LET h == sess[s].open[f.doc]
                     IN /\ sess'[s].pc = "presence_send"
                        /\ sess'[s].state = "Active"
                        /\ wire'[s] = wire[s]
                        /\ sess'[s].pending # None
                        /\ sess'[s].pending[1].worker = h.worker
                        /\ sess'[s].pending[1].frame.client = h.id
                        /\ h.id = Latest(Entries(h.worker, s))
      ]_vars

\* a session has opened one document twice and got Ok both times; it holds
\* the second handle, and the worker has taken an update sent after that,
\* which carries the id of the second handle
C18_Witness ==
    \E s \in Sessions : \E d \in Docs :
        /\ sess[s].state = "Active" /\ sess[s].pc = "select"
        /\ wire[s].n >= 3 /\ wire[s].last.kind = "Ok"
        /\ d \in DOMAIN sess[s].open
        /\ LET h == sess[s].open[d]
           IN /\ Cardinality(Entries(h.worker, s)) = 2
              /\ h.id = Latest(Entries(h.worker, s))
              /\ h.id \in DOMAIN workers[h.worker].heard
              /\ workers[h.worker].presence_rx = << >>

\* document d has a worker that some session has opened, and every session
\* has terminated: no DocHandle and no presence receiver is left, and no
\* session is left that could open d again
Abandoned(d) ==
    /\ d \in DOMAIN opens
    /\ workers[opens[d]].alive
    /\ workers[opens[d]].client_map # << >>
    /\ \A s \in Sessions : sess[s].state = "Closed"

\* C19: once every session that opened d has terminated, the worker of d
\* eventually returns.
C19_WorkerExitsWhenUnused ==
    \A d \in Docs :
        Abandoned(d) ~> (d \in DOMAIN opens /\ ~workers[opens[d]].alive)

\* C20: an UpdatePresence{doc, presence} read by an Active session whose
\* open map has no entry for doc is answered with Error{"doc not open"}
\* carrying the frame's id as reply_to; nothing is handed to any worker, no
\* update is left pending, and the session stays Active, ready to read the
\* next frame.
C20_DocNotOpen ==
    [][\A s \in Sessions :
         Reads(s) =>
            \A f \in OfKind("UpdatePresence") : \A up \in BOOLEAN :
               (RecvUpdatePresence(s, f, up) /\ f.doc \notin DOMAIN sess[s].open) =>
                  /\ AnsweredWithError(s, "doc not open")
                  /\ workers' = workers
                  /\ sess'[s].pending = None
                  /\ sess'[s].presence_rx = sess[s].presence_rx
      ]_vars

\* a session that has opened one document has sent an update for the other
\* one: Error{"doc not open"} answers that frame, a worker exists with
\* nothing in its ingress, and the session can read a further frame
C20_Witness ==
    \E s \in Sessions :
        /\ sess[s].state = "Active"
        /\ DOMAIN sess[s].open # {}
        /\ wire[s].last.kind = "Error"
        /\ wire[s].last.error = "doc not open"
        /\ wire[s].last.reply_to = Some(-sess[s].nrecv)
        /\ \A w \in 1..Len(workers) : workers[w].presence_rx = << >>
        /\ CanRead(s)

(* ======================== properties of the codec ====================== *)
\* C25: a Frame written as JSON by serde_json::to_string and parsed again by
\* serde_json::from_str is the Frame that was written.
C25_JsonRoundTrip ==
    codec.stage = "back" => codec.back = Some(codec.frame)

(* ====================== properties of the carriers ===================== *)
\* C21: on the Adapter, once the peer has closed the connection and the
\* WebSocketStream below has come to its end, the session task eventually
\* returns and drops its State.
C21_SessionEndsOnEof ==
    (socket.carrier = "adapter" /\ socket.fin) ~> (socket.task = "done")

\* C22: on the raw carrier the accepting side writes the header before the
\* first frame it writes, and the connecting side has read the header
\* before it decodes anything as a frame.
C22_HandshakeBothWays ==
    socket.carrier = "shrub" =>
       /\ socket.down # << >> => Head(socket.down) = Bytes7(Plain(Handshake))
       /\ socket.peer_frames # << >> => socket.peer_hs

\* the text messages the carrier has consumed, in order
IsText(e) == e.ev = "msg" /\ e.msg.m = "Text"
TextsSeen == SelectSeq(socket.seen, IsText)

\* C23: on the Adapter a frame reaches the session only after the first
\* text message consumed was the handshake literal; if the first text
\* message is anything else, it is answered with an InvalidData error, on
\* which the session task returns: no frame has been surfaced and nothing
\* more is read.
C23_NoFrameBeforeHandshake ==
    socket.carrier = "adapter" =>
       /\ socket.frames # << >> =>
             /\ TextsSeen # << >>
             /\ TextsSeen[1] = Msg(Text(Plain(Handshake)))
             /\ Len(TextsSeen) > Len(socket.frames)
       /\ (TextsSeen # << >> /\ TextsSeen[1] # Msg(Text(Plain(Handshake)))) =>
             /\ socket.task = "done"
             /\ socket.exit = "InvalidData"
             /\ socket.frames = << >>
             /\ Len(TextsSeen) = 1

\* the peer has sent an Authenticate frame as its first text message, with
\* no handshake before it: the session task has returned on InvalidData
C23_Witness ==
    /\ socket.carrier = "adapter"
    /\ TextsSeen = << Msg(Text(Json(to_string(AuthFrame)))) >>
    /\ socket.task = "done"
    /\ socket.exit = "InvalidData"
    /\ socket.frames = << >>

\* a binary message was consumed before any text message
BinaryBeforeText ==
    \E i \in 1..Len(socket.seen) :
        /\ socket.seen[i] = Msg(Binary)
        /\ \A j \in 1..(i - 1) : ~IsText(socket.seen[j])

\* C24: on the WebSocket carriers a binary message consumed before the
\* handshake text is rejected: the session has ended on an error and no
\* frame has reached it.
C24_BinaryBeforeHandshakeRejected ==
    (socket.carrier \in {"adapter", "websocket"} /\ BinaryBeforeText) =>
       /\ socket.task = "done"
       /\ socket.exit \in {"InvalidData", "handshake"}
       /\ socket.frames = << >>

(* ================= properties of the session's frames ================= *)
\* C26: a frame with an unknown type tag read by an Active session puts
\* nothing on any wire, changes nothing in the Authorizer, the registry or
\* the workers, leaves the session's id counter and every other field of
\* the State as they were (only the count of frames read advances), and
\* leaves the session Active at its select, ready for the next frame.
C26_UnknownFrameIgnored ==
    [][\A s \in Sessions :
         Reads(s) =>
            \A f \in OfKind("UnknownFrame") :
               RecvUnknown(s, f) =>
                  /\ wire' = wire
                  /\ inner' = inner /\ revoked' = revoked /\ minted' = minted
                  /\ opens' = opens /\ workers' = workers
                  /\ sess' = [sess EXCEPT ![s] = [@ EXCEPT !.nrecv = @ + 1,
                                                           !.cur_id = InboundId(s)]]
                  /\ sess'[s].next_frame_id = sess[s].next_frame_id
                  /\ sess'[s].state = "Active" /\ sess'[s].pc = "select"
      ]_vars

\* a session has read three frames and written two: the Ok of its
\* Authenticate and a reply to its third frame, whose id follows the Ok's;
\* its second frame, of an unknown type, got no reply and cost no id
C26_Witness ==
    \E s \in Sessions :
        /\ sess[s].state = "Active" /\ sess[s].pc = "select" /\ sess[s].wr_ok
        /\ sess[s].nrecv = 3
        /\ wire[s].n = 2
        /\ wire[s].last.id = 2
        /\ wire[s].last.reply_to = Some(-3)
        /\ sess[s].next_frame_id > 2

\* C27: every frame the server writes consumes exactly one id: the k-th
\* frame written on a connection carries the id k, also when an Error reply
\* came before it.
C27_KthFrameHasIdK ==
    \A s \in Sessions : wire[s].n > 0 => wire[s].last.id = wire[s].n

\* C28: a failed write of a reply is fatal to the session: no session whose
\* transport has failed a write is still Active, reading further frames.
C28_FailedWriteEndsSession ==
    \A s \in Sessions : sess[s].state = "Active" => sess[s].wr_ok

\* the number of updates in the batches ahead of the i-th one
RECURSIVE Ahead(_, _)
Ahead(batches, i) ==
    IF i = 1 THEN 0 ELSE Ahead(batches, i - 1) + Len(batches[i - 1])

\* updates holds the updates of the batches, each once, batch after batch
\* and within a batch in the batch's order
EachOnceInOrder(batches, updates) ==
    /\ Len(updates) = Ahead(batches, Len(batches) + 1)
    /\ \A i \in DOMAIN batches : \A j \in DOMAIN batches[i] :
          updates[Ahead(batches, i) + j] = batches[i][j]

\* session s takes batches from its presence channel or writes a Presence
\* frame, and its transport takes the write
EmitsPresence(s) ==
    /\ sess[s].state = "Active" /\ sess'[s].state = "Active"
    /\ \/ sess[s].presence_rx # << >> /\ sess'[s].presence_rx = << >>
       \/ wire'[s] # wire[s] /\ wire'[s].last.kind = "Presence"

\* C29: a session with k >= 1 batches in its presence channel that takes
\* from the channel writes exactly one frame: a Presence frame whose updates
\* are those of the k batches in channel order, each once, with the next
\* server id and no reply_to; the channel is left empty and the id counter
\* advances by one.
C29_OnePresenceFramePerDrain ==
    [][\A s \in Sessions :
         EmitsPresence(s) =>
            /\ sess[s].presence_rx # << >>
            /\ wire'[s].n = wire[s].n + 1
            /\ wire'[s].last.kind = "Presence"
            /\ EachOnceInOrder(sess[s].presence_rx, wire'[s].last.updates)
            /\ wire'[s].last.id = sess[s].next_frame_id
            /\ wire'[s].last.reply_to = None
            /\ sess'[s].presence_rx = << >>
            /\ sess'[s].next_frame_id = sess[s].next_frame_id + 1
      ]_vars

\* a Presence frame just written carries two updates of one client: a
\* snapshot holds one entry per client and a fan-out batch one update, so
\* the frame was put together from at least two batches
C29_Witness ==
    \E s \in Sessions :
        /\ sess[s].state = "Active" /\ sess[s].presence_rx = << >>
        /\ wire[s].last.kind = "Presence"
        /\ wire[s].last.id + 1 = sess[s].next_frame_id
        /\ \E i, j \in DOMAIN wire[s].last.updates :
              /\ i < j
              /\ wire[s].last.updates[i].client = wire[s].last.updates[j].client

\* C30: a subscriber sees the fan-out of a worker in the order in which the
\* worker processed the updates.  Step by step: the worker takes the oldest
\* update of its ingress and sessions add at its back; what the worker
\* hands a session while processing an update is that update alone, put
\* behind all the session's channel already holds; and a session that
\* writes a Presence frame writes what its channel held, front to back.
\* Updates may be missing (a full channel drops them), never out of order.
C30_FanOutInArrivalOrder ==
    [][/\ \A w \in 1..Len(workers) :
            workers'[w].presence_rx # workers[w].presence_rx =>
               \/ /\ workers[w].presence_rx # << >>
                  /\ workers'[w].presence_rx = Tail(workers[w].presence_rx)
                  /\ workers'[w].heard[Head(workers[w].presence_rx).frame.client]
                        = Head(workers[w].presence_rx)
                  /\ \A t \in Sessions : \A i \in DOMAIN Added(t) :
                        Added(t)[i] = << Head(workers[w].presence_rx).frame >>
               \/ /\ Len(workers'[w].presence_rx) = Len(workers[w].presence_rx) + 1
                  /\ SubSeq(workers'[w].presence_rx, 1, Len(workers[w].presence_rx))
                        = workers[w].presence_rx
       /\ \A t \in Sessions :
            (sess[t].state = "Active" /\ sess'[t].state = "Active") =>
               \/ /\ Extended(t)
                  /\ wire'[t] # wire[t] => wire'[t].last.kind # "Presence"
               \/ /\ sess'[t].presence_rx = << >>
                  /\ wire'[t].n = wire[t].n + 1
                  /\ wire'[t].last.kind = "Presence"
                  /\ wire'[t].last.id > wire[t].last.id
                  /\ wire'[t].last.updates = Concat(sess[t].presence_rx)
      ]_vars

\* a client has sent "q" and then "p"; the worker has processed both, "p"
\* last, and the other session has been written a Presence frame in which
\* that client's "q" stands before its "p"
C30_Witness ==
    \E t \in Sessions :
        /\ sess[t].state = "Active"
        /\ wire[t].last.kind = "Presence"
        /\ \E i, j \in DOMAIN wire[t].last.updates :
              LET a == wire[t].last.updates[i]
                  b == wire[t].last.updates[j]
              IN /\ i < j
                 /\ a.client = b.client
                 /\ a.presence = Some("q") /\ b.presence = Some("p")
                 /\ workers[1].client_map[a.client] # t
                 /\ workers[1].heard[b.client].frame = b
                 /\ workers[1].heard[b.client].last_update >= StartAge

(* =================== properties of the whole server ==================== *)
\* the tokens the by-user index lists under user u
ListedUnder(u) ==
    IF u \in DOMAIN inner.by_user THEN Range(inner.by_user[u]) ELSE {}

\* C31: the two indices of the Authorizer agree in every reachable state,
\* whatever the sessions' MintToken, Authenticate and RevokeTokensForUser
\* frames and their interleaving: a token is in by_token with an entry of
\* user u if and only if by_user lists it under u.
C31_IndicesConsistent ==
    /\ \A t \in DOMAIN inner.by_token : t \in ListedUnder(inner.by_token[t].user)
    /\ \A u \in DOMAIN inner.by_user : \A t \in Range(inner.by_user[u]) :
          t \in DOMAIN inner.by_token /\ inner.by_token[t].user = u

\* two sessions, both authenticated as root, have each minted a token for
\* the same user
C31_Witness ==
    /\ \A s \in Sessions : sess[s].state = "Active" /\ IsRoot(sess[s])
                              /\ wire[s].last.kind = "MintTokenResponse"
    /\ \E u \in DOMAIN inner.by_user : Len(inner.by_user[u]) = 2

\* worker w serves its ticker in this step
Ticks(w) == workers[w].alive /\ workers'[w].next_tick # workers[w].next_tick

\* C32: when a worker serves a tick at the instant now, an entry of its
\* presence map is evicted if and only if now - last_update > 30 s: an
\* entry aged 30 s or less is still in the map after the tick.
C32_EvictedIffOlderThanTtl ==
    [][\A w \in 1..Len(workers) :
         Ticks(w) =>
            \A c \in DOMAIN workers[w].presence_map :
               c \in DOMAIN workers'[w].presence_map
                  <=> now - workers[w].presence_map[c].last_update <= PresenceTtl
      ]_vars

\* the PresenceFrames session t has been delivered: those in the batches of
\* its presence channel and those of the Presence frame last written to it
DeliveredTo(t) ==
    UNION {Range(sess[t].presence_rx[i]) : i \in DOMAIN sess[t].presence_rx}
    \cup (IF wire[t].last.kind = "Presence" THEN Range(wire[t].last.updates)
          ELSE {})

\* the AuthEntry session e authenticated with: that of the token of its
\* first frame (the fields authenticate copies, lines 50-61)
Identity(e) ==
    IF sess[e].first.token = inner.root_token
    THEN [user |-> "root", info |-> None]
    ELSE [user |-> inner.by_token[sess[e].first.token].user,
          info |-> inner.by_token[sess[e].first.token].info]

\* C33: every PresenceFrame delivered to a subscriber names a document that
\* has a worker and a client id that this worker has assigned, and carries
\* the user and info of the AuthEntry with which the session holding that
\* handle authenticated; while that session lives they are the user and
\* info of its State.
C33_FrameCarriesEmitterIdentity ==
    \A t \in Sessions : \A fr \in DeliveredTo(t) :
       /\ fr.doc \in DOMAIN opens
       /\ LET w == opens[fr.doc]
          IN /\ workers[w].doc = fr.doc
             /\ fr.client \in DOMAIN workers[w].client_map
             /\ fr.client < workers[w].next_handle_id
             /\ LET e == Emitter(w, fr.client)
                IN /\ fr.user = Identity(e).user
                   /\ fr.info = Identity(e).info
                   /\ sess[e].state = "Active" =>
                         /\ fr.user = sess[e].auth[1].user
                         /\ fr.info = sess[e].auth[1].info
                         /\ \E d \in DOMAIN sess[e].open : sess[e].open[d].doc = fr.doc

\* each of the two sessions, one root without info and one alice with info,
\* has been written a Presence frame with an update of the other
C33_Witness ==
    /\ \A t \in Sessions :
          /\ sess[t].state = "Active"
          /\ wire[t].last.kind = "Presence"
          /\ \E fr \in Range(wire[t].last.updates) :
                /\ Emitter(opens[fr.doc], fr.client) # t
                /\ fr.presence = Some("q")
    /\ \E fr \in DeliveredTo("s1") : fr.user = "alice" /\ fr.info # None
    /\ \E fr \in DeliveredTo("s2") : fr.user = "root" /\ fr.info = None

\* session s holds a handle for d that the registered, live worker of d has
\* issued, and is back at its select
Holds(s, d) ==
    /\ sess[s].pc = "select"
    /\ d \in DOMAIN sess[s].open
    /\ d \in DOMAIN opens
    /\ sess[s].open[d].worker = opens[d]
    /\ workers[opens[d]].alive
    /\ sess[s].open[d].id \in Range(issued[opens[d]])

\* C34: with the sessions and the workers scheduled fairly, every call of
\* DocManager::open returns: a session that is inside open for a document
\* comes to hold a handle for it, issued by the live worker of that
\* document, whatever other open calls are in progress.
C34_OpenEventuallyReturns ==
    \A s \in Sessions : \A d \in Docs :
        (InOpen(s) /\ sess[s].cur.doc = d) ~> Holds(s, d)

\* both sessions have opened the same document and hold the two handles its
\* worker has issued
C34_Witness ==
    \E d \in Docs :
        /\ \A s \in Sessions : sess[s].state = "Active" /\ Holds(s, d)
        /\ {sess[s].open[d].id : s \in Sessions} = {1, 2}
        /\ workers[opens[d]].next_handle_id = 3

\* the Adapter is past the handshake, has consumed k - 1 items, and the k-th
\* is a text message waiting in the stream below
TextWaiting(k) ==
    /\ socket.carrier = "adapter"
    /\ socket.hs = "Post"
    /\ socket.task # "done"
    /\ Len(socket.seen) = k - 1
    /\ socket.inbox # << >>
    /\ IsText(Head(socket.inbox))

\* C35: on the Adapter every text message that arrives after the handshake
\* is eventually surfaced to the session task, as a frame or as a decode
\* error on which the task returns, also when the message was already
\* buffered when the handshake or an ignored message was consumed.
C35_TextEventuallySurfaced ==
    \A k \in 1..MaxMessages :
        TextWaiting(k) ~> (Len(socket.seen) >= k \/ socket.task = "done")

\* the token session s authenticated with would be rejected now: it has been
\* revoked or has expired
TokenDead(s) == authenticate(inner, sess[s].first.token, now) = None
TokenDeadNext(s) == authenticate(inner', sess[s].first.token, now') = None

\* C36: revocation and expiry act on later Authenticate frames only.  The
\* step in which the token of an Active session dies leaves the session as
\* it is, and a session whose token is dead keeps its AuthEntry and is
\* served as before: Open enters DocManager::open, UpdatePresence for an
\* open document is handed on under the session's user, and a root session
\* still mints and revokes.
C36_ActiveSessionOutlivesToken ==
    [][\A s \in Sessions :
         sess[s].state = "Active" =>
            /\ (~TokenDead(s) /\ TokenDeadNext(s)) => sess'[s] = sess[s]
            /\ (TokenDead(s) /\ sess'[s].state = "Active") =>
                  sess'[s].auth = sess[s].auth
            /\ (TokenDead(s) /\ Reads(s)) =>
                  /\ \A f \in OfKind("Open") :
                        RecvOpen(s, f) =>
                           sess'[s].state = "Active" /\ sess'[s].pc = "open_send"
                  /\ \A f \in OfKind("UpdatePresence") :
                        (RecvUpdatePresence(s, f, TRUE) /\ f.doc \in DOMAIN sess[s].open) =>
                           /\ sess'[s].state = "Active"
                           /\ sess'[s].pc = "presence_send"
                           /\ sess'[s].pending[1].frame.user = AuthUser(s)
                  /\ \A f \in OfKind("MintToken") :
                        (RecvMintToken(s, f, TRUE) /\ IsRoot(sess[s])) =>
                           /\ sess'[s].state = "Active"
                           /\ random_alphanum(rng) \in DOMAIN inner'.by_token
                           /\ sess'[s].wr_ok =>
                                 /\ wire'[s].last.kind = "MintTokenResponse"
                                 /\ wire'[s].last.token = Some(random_alphanum(rng))
                  /\ \A f \in OfKind("RevokeTokensForUser") :
                        (RecvRevoke(s, f, TRUE) /\ IsRoot(sess[s]) /\ f.user # "root") =>
                           /\ sess'[s].state = "Active"
                           /\ inner' = revoke_tokens_for_user(inner, f.user)
                           /\ sess'[s].wr_ok =>
                                 /\ wire'[s].n = wire[s].n + 1
                                 /\ wire'[s].last.kind = "Ok"
      ]_vars

\* the token of s2 has expired and has been revoked, and after its expiry
\* s2, still Active under the entry it authenticated with, has sent an
\* update that the worker has taken
C36_Witness ==
    /\ sess["s2"].state = "Active"
    /\ TokenDead("s2")
    /\ ServedToken \in revoked
    /\ now > ServedEntry("alice").expiry
    /\ sess["s2"].auth = Some(ServedEntry("alice"))
    /\ 2 \in DOMAIN workers[1].heard
    /\ workers[1].heard[2].last_update = now
    /\ workers[1].heard[2].frame.user = "alice"

\* C37: the identity of a session is fixed when it authenticates.  An
\* Authenticate frame read by an Active session, whatever its token, puts
\* nothing on the wire and leaves the session's AuthEntry as it is; and in
\* no step at all does the AuthEntry of a session that stays Active change.
C37_IdentityFixedAtAuthentication ==
    [][\A s \in Sessions :
         sess[s].state = "Active" =>
            /\ sess'[s].state = "Active" => sess'[s].auth = sess[s].auth
            /\ Reads(s) =>
                  \A f \in OfKind("Authenticate") :
                     RecvUnknown(s, f) =>
                        /\ wire' = wire
                        /\ sess'[s].state = "Active" /\ sess'[s].pc = "select"
                        /\ sess'[s].auth = sess[s].auth
                        /\ sess'[s].next_frame_id = sess[s].next_frame_id
                        /\ inner' = inner
      ]_vars

\* a session that authenticated with a minted token as a user other than
\* root has read a second frame, which got no reply, while the root token
\* would authenticate: it still acts as the user it authenticated as
C37_Witness ==
    \E s \in Sessions :
        /\ sess[s].state = "Active" /\ sess[s].pc = "select" /\ sess[s].wr_ok
        /\ sess[s].first.kind = "Authenticate"
        /\ sess[s].first.token # inner.root_token
        /\ sess[s].nrecv = 2
        /\ wire[s].n = 1
        /\ sess[s].auth = Some(inner.by_token[sess[s].first.token])
        /\ AuthUser(s) # "root"
        /\ sess[s].next_frame_id = 2

\* C38: a worker holds at most one client_map entry per session: no two
\* client ids deliver to the presence channel of the same session.
C38_OneEntryPerSession ==
    \A w \in 1..Len(workers) : \A c1, c2 \in DOMAIN workers[w].client_map :
        c1 # c2 => Emitter(w, c1) # Emitter(w, c2)

====
